---------------------------- MODULE Spec2Model ----------------------------
(***************************************************************************)
(* A model of the pymata-express Firmata client                            *)
(* (src/pymata_express/pymata_express.py and pymata_express_serial.py).    *)
(*                                                                         *)
(* The client runs on one asyncio event loop.  An action of this module    *)
(* is the code a task executes between two points where it really          *)
(* suspends; a coroutine that is awaited but never reaches a suspending    *)
(* await (the serial write of a byte, a serial read when a byte is         *)
(* waiting) runs inside the action of its caller.                          *)
(*                                                                         *)
(* Python lists are 0-based; tables are functions over 0..n-1 and byte     *)
(* lists are TLA+ sequences (1-based), so data[k] is written data[k+1].    *)
(***************************************************************************)
EXTENDS Integers, Sequences, FiniteSets, TLC

(***************************************************************************)
(* Protocol constants (private_constants.py)                               *)
(***************************************************************************)
REPORT_DIGITAL == 208
SET_PIN_MODE == 244
START_SYSEX == 240
END_SYSEX == 247
DIGITAL_MESSAGE == 144
ANALOG_MESSAGE == 224
REPORT_VERSION == 249
KEEP_ALIVE == 80
SONAR_DATA == 99
SPI_DATA == 104
STRING_DATA == 113
I2C_REPLY == 119
REPORT_FIRMWARE == 121
SAMPLING_INTERVAL == 122
PIN_STATE_QUERY == 109
PIN_STATE_RESPONSE == 110
CAPABILITY_QUERY == 107
CAPABILITY_RESPONSE == 108
ANALOG_MAPPING_QUERY == 105
ANALOG_MAPPING_RESPONSE == 106
DHT_DATA == 101
DHT_CONFIG == 100
DHT == 15
MSB == 2
LSB == 1
REPORTING_ENABLE == 1
INPUT == 0
ANALOG == 2
PULLUP == 11
OUTPUT == 1
PWM == 3
IGNORE == 127
SYSTEM_RESET == 255
SET_DIGITAL_PIN_VALUE == 245
REPORTING_DISABLE == 0
EXTENDED_ANALOG == 111
SPI_TRANSFER == 2
SPI_WRITE == 3
SPI_READ == 4
ARE_YOU_THERE == 81
I_AM_HERE == 82
SONAR_CONFIG == 98
I2C_REQUEST == 118
I2C == 6
SONAR == 12
I2C_READ == 8
\* the modulus of the SPI request id ("% 128")
SpiIdModulus == 128
\* the query timeout in seconds ("> 4")
QueryTimeout == 4

(***************************************************************************)
(* Bounds of the model                                                     *)
(***************************************************************************)
\* unread bytes in the transport from which on the firmware side waits
\* before it sends its next message
MaxInbuf == 1
\* messages the firmware side sends in one run
MaxFeeds == 2
\* value of the wall clock at which the model stops advancing it
MaxClock == 1
\* records of the digital pin table (one per byte of the analog map)
NumDigitalPins == 9
\* records of the analog pin table
NumAnalogPins == 2
\* bytes on the outbound side of the transport up to which the pin-mode
\* setters are called
MaxWire == 10
\* bytes on the outbound side of the transport up to which SysEx messages
\* are written
MaxSysexWire == 18
\* SPI verb calls made in one run, on top of those made before it starts
MaxSpiCalls == 3
\* free SPI request ids at the start of a run, at most
MaxSpiFree == 2
\* query messages written in one run
MaxQueries == 2
\* calls of shutdown the application makes
MaxShutdownCalls == 2

VARIABLES
    ip_address,        \* TRUE when the client was built with ip_address (TCP)
    inbuf,             \* bytes waiting in the transport, each <<byte, message no>>
    fed,               \* messages the firmware has sent so far
    clock,             \* time.time()
    the_task,          \* the dispatcher task: "running", "done" or "failed"
    dpc,               \* where _arduino_report_dispatcher is suspended
    sysex,             \* its local list sysex
    command,           \* its local list command (kept until the next message)
    cur_msg,           \* message no of the message being dispatched
    major,             \* _report_version: the local major
    loop_pin,          \* _digital_message: the loop variable pin
    port_data,         \* _digital_message: the local port_data
    running,           \* user callbacks invoked and not yet completed
    last_cb_msg,       \* message no of the callback invoked last
    analog_pins,       \* self.analog_pins
    digital_pins,      \* self.digital_pins
    query_reply_data,  \* self.query_reply_data
    wire,              \* bytes written to the transport, each <<byte, write no>>
    msg_seq,           \* messages the client started to write so far
    writer,            \* per writing task: the bytes of its message still to write
    spi_requests,      \* self.spi_requests
    spi_request_id,    \* self.spi_request_id
    spi_task,          \* per task, its SPI verb: pc, next_request_id, callback
    spi_failed,        \* per task: times its callback was passed the failure value
    spi_sent,          \* SPI SysEx messages handed to _send_sysex
    spi_stores,        \* assignments self.spi_requests[id] = ... executed
    spi_calls,         \* SPI verb calls made
    spi_reply_id,      \* request id of the SPI reply handed to _spi_reply, or -1
    query,             \* per task, its one-shot query verb: pc, key, elapsed, result
    shutdown_flag,     \* self.shutdown_flag
    close_loop_on_shutdown,  \* self.close_loop_on_shutdown
    loop_running,      \* FALSE once loop.stop() has taken effect
    serial_port,       \* self.serial_port: "none", "open" or "closed"
    first_analog_pin,  \* self.first_analog_pin (-1 for None)
    DIGITAL_OUTPUT_PORT_PINS,  \* PrivateConstants.DIGITAL_OUTPUT_PORT_PINS
    start_aio,         \* start_aio: its pc, and its local report
    shutdown_call,     \* the call of shutdown: pc, loop variable, calls made
    owed,              \* the message the dispatcher is in, or waits for, when
                       \* the shutdown flag is set (0 before)
    last_digital_write,  \* per pin, the value of its latest digital_write
    pwm_value,         \* the value handed to pwm_write
    alive,             \* keep-alive: self.period, self.margin (in tenths of a
                       \* second), self.keep_alive_interval, self.keep_alive_task
    fail,              \* the verb whose write met a broken port: pc, bytes tried
    find,              \* _find_arduino: pc, the ports still to ask, com_port
    sonar_call,        \* the call of set_pin_mode_sonar: pc, trigger_pin, callback
    active_sonar_map,  \* self.active_sonar_map
    i2c_map,           \* self.i2c_map
    cb_called,         \* the callbacks the reply handlers of the maps awaited
    dht_list,          \* self.dht_list
    other_wire,        \* bytes a second client of the process wrote to its transport
    cb_query,          \* get_pin_state called by a running user callback:
                       \* "idle", "polling" or "done"
    pin_asked          \* per task, the pin of its latest get_pin_state (-1: none)

dispVars == <<inbuf, fed, clock, the_task, dpc, sysex, command, cur_msg,
              major, loop_pin, port_data, running, last_cb_msg>>
pinVars == <<analog_pins, digital_pins>>
wireVars == <<wire, msg_seq, writer>>
spiVars == <<spi_requests, spi_request_id, spi_task, spi_failed, spi_sent,
             spi_stores, spi_calls, spi_reply_id>>
lifeVars == <<shutdown_flag, close_loop_on_shutdown, loop_running,
              serial_port, first_analog_pin, DIGITAL_OUTPUT_PORT_PINS,
              start_aio,
              shutdown_call, owed, last_digital_write, pwm_value>>
lateVars == <<dht_list, other_wire, cb_query, pin_asked>>
moreVars == <<alive, fail, find, sonar_call, lateVars>>
mapVars == <<active_sonar_map, i2c_map, cb_called>>
vars == <<ip_address, dispVars, pinVars, query_reply_data, wireVars, spiVars,
          query, lifeVars, moreVars, mapVars>>

(***************************************************************************)
(* Tasks                                                                   *)
(***************************************************************************)
\* two application tasks, the keep-alive task, and the dispatcher task
\* (in which user callbacks run)
AppTasks == {"app1", "app2"}
Writers == AppTasks \cup {"keep_alive", "callback"}

Min(a, b) == IF a < b THEN a ELSE b
Abs(x) == IF x < 0 THEN -x ELSE x

\* the bytes bs as they lie in a transport, each with the number m of its message
Tagged(bs, m) == [i \in 1..Len(bs) |-> <<bs[i], m>>]

(***************************************************************************)
(* Pin tables                                                              *)
(***************************************************************************)
\* a pin record as the constructor of PinData leaves it
PinData == [current_value |-> 0, event_time |-> 0, cb |-> FALSE,
            pull_up |-> FALSE, differential |-> 0]

\* the query reply slots; full = FALSE is the empty sentinel ('' or None)
EmptySlot == [full |-> FALSE, val |-> <<>>]
QueryKeys == {REPORT_VERSION, REPORT_FIRMWARE, CAPABILITY_RESPONSE,
              ANALOG_MAPPING_RESPONSE, PIN_STATE_RESPONSE}

\* the keys of self.command_dictionary
CommandKeys == {REPORT_VERSION, REPORT_FIRMWARE, CAPABILITY_RESPONSE,
                ANALOG_MAPPING_RESPONSE, PIN_STATE_RESPONSE, STRING_DATA,
                ANALOG_MESSAGE, DIGITAL_MESSAGE, I2C_REPLY, SONAR_DATA,
                DHT_DATA, SPI_DATA}

(***************************************************************************)
(* The firmware side: it puts whole messages, or stray bytes, into the     *)
(* transport; time passes                                                  *)
(***************************************************************************)
Feed(bs) ==
    /\ fed < MaxFeeds
    /\ Len(inbuf) < MaxInbuf
    /\ inbuf' = inbuf \o Tagged(bs, fed + 1)
    /\ fed' = fed + 1
    /\ UNCHANGED <<ip_address, lifeVars, moreVars, mapVars, clock, the_task, dpc, sysex, command, cur_msg,
                   major, loop_pin, port_data, running, last_cb_msg, pinVars,
                   query_reply_data, wireVars, spiVars, query>>

Tick ==
    /\ clock < MaxClock
    /\ clock' = clock + 1
    /\ UNCHANGED <<ip_address, lifeVars, moreVars, mapVars, inbuf, fed, the_task, dpc, sysex, command,
                   cur_msg, major, loop_pin, port_data, running, last_cb_msg, pinVars,
                   query_reply_data, wireVars, spiVars, query>>

(***************************************************************************)
(* Message handlers.  A handler constrains handlerVars; the dispatcher     *)
(* step that calls it constrains the bytes read.                           *)
(***************************************************************************)
handlerVars == <<the_task, dpc, running, last_cb_msg, analog_pins,
                 digital_pins, loop_pin, port_data, query_reply_data,
                 spi_reply_id, mapVars>>

\* an exception leaves the handler and ends the dispatcher task
Raise ==
    /\ the_task' = "failed"
    /\ UNCHANGED <<dpc, running, last_cb_msg, analog_pins, digital_pins,
                   loop_pin, port_data, query_reply_data, spi_reply_id,
                   mapVars>>

\* a dispatcher that goes back to reading while the callback runs
AfterInvokeDetached(h) == "read"

\* where the dispatcher is after it called the user callback of handler h:
\* "await cb(message)" keeps it inside h until the callback has completed
AfterInvoke(h) == h

\* await <pin>.cb(message) in handler h; base: the callbacks still running
InvokeCallback(h, message, base) ==
    /\ running' = Append(base, [message |-> message, msg |-> cur_msg])
    /\ last_cb_msg' = cur_msg
    /\ dpc' = AfterInvoke(h)

\* (data[MSB] << 7) + data[LSB]
Combine(data) == data[MSB + 1] * 128 + data[LSB + 1]

\* a handler that stores every value it receives, accepted or not
AnalogMessageLastReceived(data) ==
    LET pin == data[1]
        value == Combine(data)
    IN  IF pin \notin DOMAIN analog_pins
        THEN Raise
        ELSE LET differential == Abs(value - analog_pins[pin].current_value)
             IN  /\ UNCHANGED <<the_task, digital_pins, loop_pin, port_data,
                                query_reply_data, spi_reply_id>>
                 /\ analog_pins' =
                       [analog_pins EXCEPT ![pin].current_value = value,
                                           ![pin].event_time = clock]
                 /\ IF differential >= analog_pins[pin].differential
                       /\ analog_pins[pin].cb
                    THEN InvokeCallback("cb_analog",
                                        <<ANALOG, pin, value, clock>>, running)
                    ELSE /\ dpc' = "read"
                         /\ UNCHANGED <<running, last_cb_msg>>

AnalogMessage(data) ==
    LET pin == data[1]
        value == Combine(data)
    IN  IF pin \notin DOMAIN analog_pins
        THEN Raise
        ELSE LET differential == Abs(value - analog_pins[pin].current_value)
             IN  /\ UNCHANGED <<the_task, digital_pins, loop_pin, port_data,
                                query_reply_data, spi_reply_id>>
                 /\ IF differential >= analog_pins[pin].differential
                    THEN /\ analog_pins' =
                              [analog_pins EXCEPT ![pin].current_value = value,
                                                  ![pin].event_time = clock]
                         /\ IF analog_pins[pin].cb
                            THEN InvokeCallback("cb_analog",
                                                <<ANALOG, pin, value, clock>>,
                                                running)
                            ELSE /\ dpc' = "read"
                                 /\ UNCHANGED <<running, last_cb_msg>>
                    ELSE /\ dpc' = "read"
                         /\ UNCHANGED <<analog_pins, running, last_cb_msg>>

\* the loop of _digital_message from pin on, up to the first callback it
\* awaits or to the end of the range: the pin table it leaves, the pin it
\* stopped at, port_data there, and the message of the callback (<<>>: none)
RECURSIVE DigitalLoop(_, _, _, _)
DigitalLoop(pins, pin, stop, pdata) ==
    IF pin >= stop
    THEN [pins |-> pins, pin |-> pin, port_data |-> pdata, message |-> <<>>]
    ELSE LET value == pdata % 2
             last_value == pins[pin].current_value
             upd == [pins EXCEPT ![pin].current_value = value,
                                 ![pin].event_time = clock]
             pin_type == IF pins[pin].pull_up THEN PULLUP ELSE INPUT
         IN  IF last_value # value /\ pins[pin].cb
             THEN [pins |-> upd, pin |-> pin, port_data |-> pdata,
                   message |-> <<pin_type, pin, value, clock>>]
             ELSE DigitalLoop(upd, pin + 1, stop, pdata \div 2)

\* range(pin, min(pin + 8, len(self.digital_pins))) ends before this pin
DigitalStop(port) == Min(port * 8 + 8, Cardinality(DOMAIN digital_pins))

DigitalRun(pin, pdata, port, base) ==
    LET r == DigitalLoop(digital_pins, pin, DigitalStop(port), pdata)
    IN  /\ digital_pins' = r.pins
        /\ loop_pin' = r.pin
        /\ port_data' = r.port_data
        /\ UNCHANGED <<the_task, analog_pins, query_reply_data, spi_reply_id,
                       mapVars>>
        /\ IF r.message # <<>>
           THEN InvokeCallback("cb_digital", r.message, base)
           ELSE /\ dpc' = "read"
                /\ running' = base
                /\ UNCHANGED last_cb_msg

\* a handler that takes the port mask from the low data byte alone
DigitalMessageLowByte(data) ==
    DigitalRun(data[1] * 8, data[LSB + 1], data[1], running)

DigitalMessage(data) ==
    DigitalRun(data[1] * 8, Combine(data), data[1], running)

\* chr(e + (next(it) << 7)) over the name bytes, two at a time
RECURSIVE DecodePairs(_)
DecodePairs(name) ==
    IF Len(name) < 2 THEN <<>>
    ELSE <<name[1] + name[2] * 128>> \o DecodePairs(SubSeq(name, 3, Len(name)))

\* data[1:-1]
Strip(data) == SubSeq(data, 2, Len(data) - 1)

StoreReply(key, val) ==
    /\ query_reply_data' =
          [query_reply_data EXCEPT ![key] = [full |-> TRUE, val |-> val]]
    /\ dpc' = "read"
    /\ UNCHANGED <<the_task, running, last_cb_msg, analog_pins, digital_pins,
                   loop_pin, port_data, spi_reply_id, mapVars>>

\* the reply is the version string: major, minor and the characters of
\* the name; a name of odd length ends the iterator inside the loop
ReportFirmware(sysex_data) ==
    LET name == SubSeq(sysex_data, 4, Len(sysex_data) - 1)
    IN  IF Len(sysex_data) < 3 \/ Len(name) % 2 = 1
        THEN Raise
        ELSE StoreReply(REPORT_FIRMWARE,
                        <<sysex_data[2], sysex_data[3]>> \o DecodePairs(name))

\* _spi_reply reads self.spi_read_requests, an attribute the client never sets
SpiReply(data) ==
    /\ spi_reply_id' = IF Len(Strip(data)) > 0 THEN Strip(data)[1] ELSE spi_reply_id
    /\ the_task' = "failed"
    /\ UNCHANGED <<dpc, running, last_cb_msg, analog_pins, digital_pins,
                   loop_pin, port_data, query_reply_data, mapVars>>

NoEffect ==
    /\ dpc' = "read"
    /\ UNCHANGED <<the_task, running, last_cb_msg, analog_pins, digital_pins,
                   loop_pin, port_data, query_reply_data, spi_reply_id,
                   mapVars>>

\* an I2C value that was never stored (None)
NoValue == [none |-> TRUE, data |-> <<>>]

\* a decoder that takes the first byte of a pair as the high one
I2cPairMsbFirst(low, high) == low * 128 + (high % 128)

\* combined_data = (data[i] & 0x7f) + (data[i + 1] << 7)
I2cPair(low, high) == (low % 128) + high * 128

\* ... for i in range(0, len(data), 2)
RECURSIVE I2cPairs(_)
I2cPairs(data) ==
    IF Len(data) < 2 THEN <<>>
    ELSE <<I2cPair(data[1], data[2])>> \o I2cPairs(SubSeq(data, 3, Len(data)))

\* the handler awaits the callback cb (an identity above 0) of a map entry
InvokeMapCallback(h, cb, message) ==
    /\ InvokeCallback(h, message, running)
    /\ cb_called' = Append(cb_called, [cb |-> cb, message |-> message])

\* _i2c_reply: a reply without the two address bytes, or with an odd number
\* of bytes for a mapped address, raises IndexError; an address without an
\* entry is passed over
I2cReply(data) ==
    LET s == Strip(data)
        address == I2cPair(s[1], s[2])
        reply_data == <<I2C>> \o I2cPairs(s) \o <<clock>>
    IN  IF Len(s) < 2 THEN Raise
        ELSE IF address \notin DOMAIN i2c_map THEN NoEffect
        ELSE IF Len(s) % 2 = 1 THEN Raise
        ELSE /\ i2c_map' =
                   [i2c_map EXCEPT
                      ![address].value =
                          [none |-> FALSE,
                           data |-> SubSeq(reply_data, 3, Len(reply_data))],
                      ![address].time_stamp = clock]
             /\ UNCHANGED <<the_task, analog_pins, digital_pins, loop_pin,
                            port_data, query_reply_data, spi_reply_id,
                            active_sonar_map>>
             /\ IF i2c_map[address].callback # 0
                THEN InvokeMapCallback("cb_i2c", i2c_map[address].callback,
                                       reply_data)
                ELSE /\ dpc' = "read"
                     /\ UNCHANGED <<running, last_cb_msg, cb_called>>

\* i2c_read_saved_data(address)
I2cReadSavedData(address) ==
    IF address \in DOMAIN i2c_map THEN i2c_map[address].value ELSE NoValue

\* a handler that reports every reading, changed or not
SonarDataEveryReply(data) ==
    LET s == Strip(data)
        pin_number == s[1]
        val == s[MSB + 1] * 128 + s[LSB + 1]
    IN  IF Len(s) < 3 \/ pin_number \notin DOMAIN active_sonar_map THEN Raise
        ELSE /\ active_sonar_map' =
                   [active_sonar_map EXCEPT ![pin_number].value = val,
                                            ![pin_number].time_stamp = clock]
             /\ UNCHANGED <<the_task, analog_pins, digital_pins, loop_pin,
                            port_data, query_reply_data, spi_reply_id, i2c_map>>
             /\ IF active_sonar_map[pin_number].cb # 0 /\ val # 0
                THEN InvokeMapCallback("cb_sonar",
                                       active_sonar_map[pin_number].cb,
                                       <<SONAR, pin_number, val, clock>>)
                ELSE /\ dpc' = "read"
                     /\ UNCHANGED <<running, last_cb_msg, cb_called>>

\* _sonar_data: the entry of a pin that is not in the map raises KeyError;
\* with a callback, a value that differs from the stored one is stored with
\* its time and, unless it is 0, reported; without one the value is stored
SonarData(data) ==
    LET s == Strip(data)
        pin_number == s[1]
        val == s[MSB + 1] * 128 + s[LSB + 1]
    IN  IF Len(s) < 3 \/ pin_number \notin DOMAIN active_sonar_map THEN Raise
        ELSE LET sonar_pin_entry == active_sonar_map[pin_number]
             IN  /\ UNCHANGED <<the_task, analog_pins, digital_pins, loop_pin,
                                port_data, query_reply_data, spi_reply_id,
                                i2c_map>>
                 /\ IF sonar_pin_entry.cb = 0
                    THEN /\ active_sonar_map' =
                               [active_sonar_map EXCEPT ![pin_number].value = val]
                         /\ dpc' = "read"
                         /\ UNCHANGED <<running, last_cb_msg, cb_called>>
                    ELSE IF sonar_pin_entry.value = val
                    THEN /\ dpc' = "read"
                         /\ UNCHANGED <<active_sonar_map, running, last_cb_msg,
                                        cb_called>>
                    ELSE /\ active_sonar_map' =
                               [active_sonar_map EXCEPT
                                   ![pin_number].value = val,
                                   ![pin_number].time_stamp = clock]
                         /\ IF val # 0
                            THEN InvokeMapCallback("cb_sonar", sonar_pin_entry.cb,
                                                   <<SONAR, pin_number, val, clock>>)
                            ELSE /\ dpc' = "read"
                                 /\ UNCHANGED <<running, last_cb_msg, cb_called>>

\* a number with two decimals, float(whole + hundredths / 100) with its
\* sign flag, counted in hundredths
DhtValue(negative, whole, hundredths) ==
    (IF negative # 0 THEN -1 ELSE 1) * (whole * 100 + hundredths)

\* pin_number in self.dht_list
InDhtList(pin_number) == \E i \in DOMAIN dht_list : dht_list[i] = pin_number

\* the handler, were the temperature looked at whenever the humidity is
\* not reported
DhtReportsEither(pin, last_value, humidity, temperature) ==
    \/ Abs(humidity - last_value[1]) >= digital_pins[pin].differential
    \/ Abs(temperature - last_value[2]) >= digital_pins[pin].differential

\* the tests of _dht_read_response on a pin with a callback: a humidity
\* that changed is compared with the differential and the handler returns,
\* reported or not; the temperature is looked at when the humidity is the
\* same
DhtReports(pin, last_value, humidity, temperature) ==
    IF last_value[1] # humidity
    THEN Abs(humidity - last_value[1]) >= digital_pins[pin].differential
    ELSE /\ last_value[2] # temperature
         /\ Abs(temperature - last_value[2]) >= digital_pins[pin].differential

\* _dht_read_response: the values are 0 unless the validation flag is 0;
\* time and values are stored in the pin record before the callback is
\* looked at. The value of a pin set_pin_mode_dht was not called for is a
\* number, and last_value[0] raises TypeError when the pin has a callback
DhtReadResponse(data) ==
    LET s == Strip(data)
        pin == s[1]
        humidity == IF s[3] = 0 THEN DhtValue(s[4], s[6], s[7]) ELSE 0
        temperature == IF s[3] = 0 THEN DhtValue(s[5], s[8], s[9]) ELSE 0
        reply_data == <<DHT, pin, s[2], s[3], humidity, temperature, clock>>
    IN  IF \/ Len(s) < 3
           \/ s[3] = 0 /\ Len(s) < 9
           \/ pin \notin DOMAIN digital_pins
        THEN Raise
        ELSE LET last_value == digital_pins[pin].current_value
             IN  /\ digital_pins' =
                       [digital_pins EXCEPT
                           ![pin].event_time = clock,
                           ![pin].current_value = <<humidity, temperature>>]
                 /\ UNCHANGED <<analog_pins, loop_pin, port_data,
                                query_reply_data, spi_reply_id, mapVars>>
                 /\ IF ~digital_pins[pin].cb
                    THEN /\ dpc' = "read"
                         /\ UNCHANGED <<the_task, running, last_cb_msg>>
                    ELSE IF ~InDhtList(pin)
                    THEN /\ the_task' = "failed"
                         /\ UNCHANGED <<dpc, running, last_cb_msg>>
                    ELSE /\ UNCHANGED the_task
                         /\ IF DhtReports(pin, last_value, humidity, temperature)
                            THEN InvokeCallback("cb_dht", reply_data, running)
                            ELSE /\ dpc' = "read"
                                 /\ UNCHANGED <<running, last_cb_msg>>

\* await self.command_dictionary[sysex[0]](sysex)
SysexHandler(data) ==
    LET cmd == data[1]
    IN  CASE cmd = REPORT_FIRMWARE -> ReportFirmware(data)
          [] cmd \in {CAPABILITY_RESPONSE, ANALOG_MAPPING_RESPONSE,
                      PIN_STATE_RESPONSE} -> StoreReply(cmd, Strip(data))
          [] cmd = STRING_DATA -> NoEffect
          [] cmd = SPI_DATA -> SpiReply(data)
          [] cmd = I2C_REPLY -> I2cReply(data)
          [] cmd = SONAR_DATA -> SonarData(data)
          [] cmd = DHT_DATA -> DhtReadResponse(data)
          [] cmd = DIGITAL_MESSAGE ->
                IF Len(data) < 3 THEN Raise
                ELSE DigitalRun(cmd * 8, Combine(data), cmd, running)
          [] OTHER -> Raise

\* _report_version: the second of its two reads has returned
ReportVersion(minor) == StoreReply(REPORT_VERSION, <<major, minor>>)

(***************************************************************************)
(* _arduino_report_dispatcher                                              *)
(***************************************************************************)
\* the byte at the head of the transport and the number of its message
NextByte == Head(inbuf)[1]
NextMsg == Head(inbuf)[2]

\* top of the loop: read one byte and classify it
DispatcherRead ==
    /\ the_task = "running"
    /\ dpc = "read"
    /\ inbuf # <<>>
    /\ inbuf' = Tail(inbuf)
    /\ cur_msg' = NextMsg
    /\ UNCHANGED <<ip_address, lifeVars, moreVars, mapVars, fed, clock, sysex, major, wireVars, spiVars, query>>
    /\ LET b == NextByte
       IN  CASE b = START_SYSEX ->
                   /\ dpc' = "sysex"
                   /\ UNCHANGED <<command, the_task, running, last_cb_msg,
                                  analog_pins, digital_pins, loop_pin,
                                  port_data, query_reply_data>>
             [] 224 <= b /\ b <= 239 ->
                   /\ dpc' = "analog"
                   /\ command' = <<b % 16>>
                   /\ UNCHANGED <<the_task, running, last_cb_msg, analog_pins,
                                  digital_pins, loop_pin, port_data,
                                  query_reply_data>>
             [] 144 <= b /\ b <= 159 ->
                   /\ dpc' = "digital"
                   /\ command' = <<b % 16>>
                   /\ UNCHANGED <<the_task, running, last_cb_msg, analog_pins,
                                  digital_pins, loop_pin, port_data,
                                  query_reply_data>>
             [] b = REPORT_VERSION ->
                   /\ dpc' = "version"
                   /\ UNCHANGED <<command, the_task, running, last_cb_msg,
                                  analog_pins, digital_pins, loop_pin,
                                  port_data, query_reply_data>>
             [] b \in CommandKeys \ {REPORT_VERSION} /\ b < 144 ->
                   \* the handler is called without its data argument
                   /\ UNCHANGED command
                   /\ Raise
             [] OTHER ->
                   /\ UNCHANGED <<command, the_task, dpc, running, last_cb_msg,
                                  analog_pins, digital_pins, loop_pin,
                                  port_data, query_reply_data>>

\* the inner loop that collects a SysEx message; at END_SYSEX the handler runs
ReadSysexByte ==
    /\ the_task = "running"
    /\ dpc = "sysex"
    /\ inbuf # <<>>
    /\ inbuf' = Tail(inbuf)
    /\ UNCHANGED <<ip_address, lifeVars, moreVars, fed, clock, command, cur_msg, major, wireVars,
                   spi_requests, spi_request_id, spi_task, spi_failed,
                   spi_sent, spi_stores, spi_calls, query>>
    /\ LET data == Append(sysex, NextByte)
       IN  IF NextByte = END_SYSEX
           THEN /\ SysexHandler(data)
                /\ sysex' = IF the_task' = "failed" THEN data ELSE <<>>
           ELSE /\ sysex' = data
                /\ UNCHANGED handlerVars

\* _wait_for_data(command, 2); with the second byte the handler runs
WaitForData ==
    /\ the_task = "running"
    /\ dpc \in {"analog", "digital"}
    /\ inbuf # <<>>
    /\ inbuf' = Tail(inbuf)
    /\ command' = Append(command, NextByte)
    /\ UNCHANGED <<ip_address, lifeVars, moreVars, mapVars, fed, clock, sysex, cur_msg, major, wireVars,
                   spi_requests, spi_request_id, spi_task, spi_failed,
                   spi_sent, spi_stores, spi_calls, query>>
    /\ IF Len(command) = 2
       THEN IF dpc = "analog"
            THEN AnalogMessage(Append(command, NextByte))
            ELSE DigitalMessage(Append(command, NextByte))
       ELSE UNCHANGED handlerVars

\* the two reads of _report_version
ReadVersionByte ==
    /\ the_task = "running"
    /\ dpc \in {"version", "version_minor"}
    /\ inbuf # <<>>
    /\ inbuf' = Tail(inbuf)
    /\ UNCHANGED <<ip_address, lifeVars, moreVars, mapVars, fed, clock, sysex, command, cur_msg, wireVars,
                   spi_requests, spi_request_id, spi_task, spi_failed,
                   spi_sent, spi_stores, spi_calls, query>>
    /\ IF dpc = "version"
       THEN /\ major' = NextByte
            /\ dpc' = "version_minor"
            /\ UNCHANGED <<the_task, running, last_cb_msg, analog_pins,
                           digital_pins, loop_pin, port_data,
                           query_reply_data, spi_reply_id>>
       ELSE /\ UNCHANGED major
            /\ ReportVersion(NextByte)

\* a user callback completes; the handler that awaits it goes on
CallbackReturns ==
    /\ running # <<>>
    /\ UNCHANGED <<ip_address, lifeVars, moreVars, mapVars, inbuf, fed, clock, sysex, command, cur_msg,
                   major, wireVars, spi_requests, spi_request_id, spi_task,
                   spi_failed, spi_sent, spi_stores, spi_calls, query>>
    /\ CASE dpc = "cb_digital" /\ the_task = "running" ->
                \* port_data >>= 1, and the next pin of the range
                DigitalRun(loop_pin + 1, port_data \div 2, command[1],
                           Tail(running))
         [] dpc \in {"cb_analog", "cb_i2c", "cb_sonar", "cb_dht"} /\ the_task = "running" ->
                /\ dpc' = "read"
                /\ running' = Tail(running)
                /\ UNCHANGED <<the_task, last_cb_msg, analog_pins,
                               digital_pins, loop_pin, port_data,
                               query_reply_data, spi_reply_id>>
         [] OTHER ->
                /\ running' = Tail(running)
                /\ UNCHANGED <<the_task, dpc, last_cb_msg, analog_pins,
                               digital_pins, loop_pin, port_data,
                               query_reply_data, spi_reply_id>>

(***************************************************************************)
(* Writing to the serial transport                                         *)
(***************************************************************************)
\* a transport whose write gives way to other tasks after every byte
WriteBurstOne(pending) == 1

\* _send_command and _send_sysex await serial_port.write(byte) for every
\* byte; the write sets its future before it tests it, so it returns
\* without suspending: of the bytes a task has to write, this many reach
\* the transport before another task can run
WriteBurst(pending) == Len(pending)

\* the messages msgs, one after the other, tagged with their write numbers
RECURSIVE TaggedAll(_, _)
TaggedAll(msgs, n) ==
    IF msgs = <<>> THEN <<>>
    ELSE Tagged(Head(msgs), n + 1) \o TaggedAll(Tail(msgs), n + 1)

\* task t writes the messages msgs
Send(t, msgs) ==
    LET pending == TaggedAll(msgs, msg_seq)
        k == WriteBurst(pending)
    IN  /\ writer[t] = <<>>
        /\ wire' = wire \o SubSeq(pending, 1, k)
        /\ writer' = [writer EXCEPT ![t] = SubSeq(pending, k + 1, Len(pending))]
        /\ msg_seq' = msg_seq + Len(msgs)

\* the outbound side holds at most max bytes once msgs are written
WireHasRoom(msgs, max) == Len(wire) + Len(TaggedAll(msgs, 0)) <= max

\* task t, suspended inside a write, goes on writing
SendMore(t) ==
    LET k == WriteBurst(writer[t])
    IN  /\ writer[t] # <<>>
        /\ wire' = wire \o SubSeq(writer[t], 1, k)
        /\ writer' = [writer EXCEPT ![t] = SubSeq(writer[t], k + 1, Len(writer[t]))]
        /\ UNCHANGED msg_seq

\* START_SYSEX, command, data..., END_SYSEX
SysexMessage(sysex_command, sysex_data) ==
    <<START_SYSEX, sysex_command>> \o sysex_data \o <<END_SYSEX>>

(***************************************************************************)
(* Pin-mode setters                                                        *)
(***************************************************************************)
\* the pin byte _set_pin_mode sends: for ANALOG,
\* pin_number = pin_number + self.first_analog_pin
WirePin(pin_number, pin_state) ==
    IF pin_state = ANALOG THEN pin_number + first_analog_pin ELSE pin_number

\* the commands _set_pin_mode writes: SET_PIN_MODE, and for INPUT and PULLUP
\* enable_digital_reporting(pin_number)
SetPinModeMessages(pin_number, pin_state) ==
    LET pin == WirePin(pin_number, pin_state)
    IN  IF pin_state \in {INPUT, PULLUP}
        THEN << <<SET_PIN_MODE, pin, pin_state>>,
                <<REPORT_DIGITAL + (pin \div 8), REPORTING_ENABLE>> >>
        ELSE << <<SET_PIN_MODE, pin, pin_state>> >>

\* _set_pin_mode(pin_number, pin_state, callback, differential), called by
\* task t; callback is TRUE when a callback function is passed
SetPinMode(t, pin_number, pin_state, callback, differential) ==
    /\ IF callback /\ pin_state = INPUT
       THEN /\ digital_pins' = [digital_pins EXCEPT ![pin_number].cb = TRUE]
            /\ UNCHANGED analog_pins
       ELSE IF callback /\ pin_state = PULLUP
       THEN /\ digital_pins' = [digital_pins EXCEPT ![pin_number].cb = TRUE,
                                                    ![pin_number].pull_up = TRUE]
            /\ UNCHANGED analog_pins
       ELSE IF callback /\ pin_state = ANALOG
       THEN /\ analog_pins' =
                 [analog_pins EXCEPT ![pin_number].cb = TRUE,
                                     ![pin_number].differential = differential]
            /\ UNCHANGED digital_pins
       ELSE UNCHANGED <<analog_pins, digital_pins>>
    /\ LET msgs == SetPinModeMessages(pin_number, pin_state)
       IN  /\ WireHasRoom(msgs, MaxWire)
           /\ Send(t, msgs)
    /\ UNCHANGED <<ip_address, lifeVars, moreVars, mapVars, dispVars, query_reply_data, spiVars, query>>

\* differentials the application asks for
Differentials == {5}
\* digital pins the application makes inputs
InputPins == {0, 1, NumDigitalPins - 1}

\* set_pin_mode_analog_input(pin, callback, differential)
SetPinModeAnalogInput ==
    \E t \in AppTasks, pin \in 0..(NumAnalogPins - 1), callback \in BOOLEAN,
       d \in Differentials :
        SetPinMode(t, pin, ANALOG, callback, d)

\* ... of the first analog pin, with a callback
SetPinModeAnalogInputCallback ==
    \E d \in Differentials : SetPinMode("app1", 0, ANALOG, TRUE, d)

\* set_pin_mode_digital_input(pin, callback)
SetPinModeDigitalInput ==
    \E t \in AppTasks, pin \in InputPins, callback \in BOOLEAN :
        SetPinMode(t, pin, INPUT, callback, 1)

\* ... of the first two pins, with a callback
SetPinModeDigitalInputCallback ==
    \E pin \in 0..1 : SetPinMode("app1", pin, INPUT, TRUE, 1)

SetPinModeDigitalInputPullup ==
    \E t \in AppTasks, pin \in InputPins, callback \in BOOLEAN :
        SetPinMode(t, pin, PULLUP, callback, 1)

(***************************************************************************)
(* Output verbs                                                            *)
(***************************************************************************)
\* an encoder that keeps eight bits in the low byte
DataBytesEightBit(value) == <<value % 256, (value \div 256) % 128>>

\* value & 0x7f, (value >> 7) & 0x7f, for a value that is not negative
DataBytes(value) == <<value % 128, (value \div 128) % 128>>

\* pins pwm_write is called for: one below 16, one that needs the
\* extended message
PwmPins == {3, 16}

\* pwm_write(pin, pwm_value), called by the first application task
PwmWrite ==
    \E pin \in PwmPins :
       LET msgs ==
             IF ANALOG_MESSAGE + pin < 240
             THEN << <<ANALOG_MESSAGE + pin>> \o DataBytes(pwm_value) >>
             ELSE << SysexMessage(EXTENDED_ANALOG,
                                  <<pin>> \o DataBytes(pwm_value)
                                    \o <<(pwm_value \div 16384) % 128>>) >>
       IN  /\ WireHasRoom(msgs, MaxWire)
           /\ Send("app1", msgs)
           /\ UNCHANGED <<ip_address, lifeVars, moreVars, mapVars, dispVars, pinVars,
                          query_reply_data, spiVars, query>>

\* an update that stores the mask as the whole entry
WritePortPinsWhole(entry, pin, value) ==
    IF value = 1 THEN 2 ^ (pin % 8) ELSE 0

\* mask = 1 << (pin % 8); entry |= mask when value == 1, entry &= ~mask
\* otherwise
WritePortPins(entry, pin, value) ==
    LET mask == 2 ^ (pin % 8)
        set == (entry \div mask) % 2 = 1
    IN  IF value = 1
        THEN (IF set THEN entry ELSE entry + mask)
        ELSE (IF set THEN entry - mask ELSE entry)

\* a command assembled from the entry as it was before the update
DigitalWriteCommandStale(pin, value) ==
    LET entry == DIGITAL_OUTPUT_PORT_PINS[pin \div 8]
    IN  <<DIGITAL_MESSAGE + (pin \div 8), entry % 128, (entry \div 128) % 128>>

\* the command of digital_write: calculated_command, entry & 0x7f,
\* (entry >> 7) & 0x7f, of the updated entry
DigitalWriteCommand(pin, value) ==
    LET entry == WritePortPins(DIGITAL_OUTPUT_PORT_PINS[pin \div 8], pin, value)
    IN  <<DIGITAL_MESSAGE + (pin \div 8), entry % 128, (entry \div 128) % 128>>

\* digital_write(pin, value)
DigitalWriteOf(pin, value) ==
    LET msgs == <<DigitalWriteCommand(pin, value)>>
    IN  /\ WireHasRoom(msgs, MaxWire)
        /\ Send("app1", msgs)
        /\ DIGITAL_OUTPUT_PORT_PINS' =
              [DIGITAL_OUTPUT_PORT_PINS EXCEPT ![pin \div 8] =
                  WritePortPins(DIGITAL_OUTPUT_PORT_PINS[pin \div 8], pin, value)]
        /\ last_digital_write' = [last_digital_write EXCEPT ![pin] = value]
        /\ UNCHANGED <<ip_address, shutdown_flag, close_loop_on_shutdown,
                       loop_running, serial_port, first_analog_pin, start_aio,
                       shutdown_call, owed, pwm_value, moreVars, mapVars, dispVars, pinVars,
                       query_reply_data, spiVars, query>>

\* the pins the application writes: two of port 0, one of port 1
DigitalWritePins == {0, 7, NumDigitalPins - 1}

DigitalWrite ==
    \E pin \in DigitalWritePins, value \in {0, 1} : DigitalWriteOf(pin, value)

\* digital_pin_write(pin, value)
DigitalPinWrite ==
    \E pin \in {0}, value \in {1} :
        LET msgs == << <<SET_DIGITAL_PIN_VALUE, pin, value>> >>
        IN  /\ WireHasRoom(msgs, MaxWire)
            /\ Send("app1", msgs)
            /\ UNCHANGED <<ip_address, lifeVars, moreVars, mapVars, dispVars, pinVars,
                           query_reply_data, spiVars, query>>

\* set_pin_mode_digital_output(pin_number)
SetPinModeDigitalOutput ==
    \E pin \in {0} : SetPinMode("app1", pin, OUTPUT, FALSE, 1)

\* set_pin_mode_pwm_output(pin_number)
SetPinModePwmOutput ==
    \E pin \in {p \in PwmPins : p < NumDigitalPins} :
        SetPinMode("app1", pin, PWM, FALSE, 1)

(***************************************************************************)
(* Verbs that write one SysEx message, and the keep-alive task             *)
(***************************************************************************)
\* task t goes on with a write it is suspended in, or else writes msgs
TaskWrites(t, msgs) ==
    /\ IF writer[t] # <<>>
       THEN SendMore(t)
       ELSE /\ WireHasRoom(msgs, MaxSysexWire)
            /\ Send(t, msgs)
    /\ UNCHANGED <<ip_address, lifeVars, moreVars, mapVars, dispVars, pinVars, query_reply_data, spiVars,
                   query>>

\* periods of the keep-alive and sampling intervals the application asks for
Periods == {1}
Intervals == {19}
\* ... and the interval a user callback asks for
CallbackIntervals == {200}

\* one round of _send_keep_alive, for keep_alive(period)
SendKeepAlive ==
    \E period \in Periods :
        TaskWrites("keep_alive",
                   <<SysexMessage(KEEP_ALIVE,
                                  <<period % 128, (period \div 128) % 128>>)>>)

\* set_sampling_interval(interval), called by writer t
SamplingInterval(t, intervals) ==
    \E interval \in intervals :
        TaskWrites(t, <<SysexMessage(SAMPLING_INTERVAL,
                                     <<interval % 128,
                                       (interval \div 128) % 128>>)>>)

\* ... called by an application task
SetSamplingInterval == \E t \in AppTasks : SamplingInterval(t, Intervals)

\* ... called by a user callback that the dispatcher task is running
CallbackSetsSamplingInterval ==
    /\ running # <<>>
    /\ SamplingInterval("callback", CallbackIntervals)

(***************************************************************************)
(* One-shot query verbs                                                    *)
(***************************************************************************)
\* the verbs that compare the elapsed time with the timeout while they poll
TimedKeys == {REPORT_FIRMWARE, ANALOG_MAPPING_RESPONSE}

\* the verb of task t returns what the slot key holds; get_pin_state
\* empties the slot
QueryReturnsReply(t, key) ==
    /\ query' = [query EXCEPT ![t] = [pc |-> "done", key |-> key,
                                      elapsed |-> 0, result |-> "reply"]]
    /\ query_reply_data' =
          IF key = PIN_STATE_RESPONSE
          THEN [query_reply_data EXCEPT ![key] = EmptySlot]
          ELSE query_reply_data

\* one turn of the polling loop of the verb of task t, elapsed being
\* time.time() - current_time: the slot is tested, then, in a timed verb,
\* the elapsed time; asyncio.sleep(self.sleep_tune) suspends the verb
QueryLoop(t, key, elapsed) ==
    IF query_reply_data[key].full
    THEN QueryReturnsReply(t, key)
    ELSE /\ UNCHANGED query_reply_data
         /\ query' = [query EXCEPT ![t] =
                IF key \in TimedKeys /\ elapsed > QueryTimeout
                THEN [pc |-> "done", key |-> key, elapsed |-> 0,
                      result |-> "timeout"]
                ELSE [pc |-> "polling", key |-> key, elapsed |-> elapsed,
                      result |-> "none"]]

\* task t calls the query verb of the slot key, whose request is msg;
\* get_pin_state (always) sends its request without looking at the slot
QueryVerb(t, key, msg, always) ==
    /\ query[t].pc # "polling"
    /\ writer[t] = <<>>
    /\ UNCHANGED <<ip_address, lifeVars, moreVars, mapVars, dispVars, pinVars, spiVars>>
    /\ IF query_reply_data[key].full /\ ~always
       THEN /\ QueryReturnsReply(t, key)
            /\ UNCHANGED wireVars
       ELSE /\ msg_seq < MaxQueries
            /\ Send(t, <<msg>>)
            /\ QueryLoop(t, key, 0)

GetFirmwareVersion ==
    \E t \in AppTasks :
        QueryVerb(t, REPORT_FIRMWARE, SysexMessage(REPORT_FIRMWARE, <<>>), FALSE)

GetProtocolVersion ==
    \E t \in AppTasks :
        QueryVerb(t, REPORT_VERSION, <<REPORT_VERSION>>, FALSE)

GetAnalogMap ==
    \E t \in AppTasks :
        QueryVerb(t, ANALOG_MAPPING_RESPONSE,
                  SysexMessage(ANALOG_MAPPING_QUERY, <<>>), FALSE)

GetCapabilityReport ==
    \E t \in AppTasks :
        QueryVerb(t, CAPABILITY_RESPONSE,
                  SysexMessage(CAPABILITY_QUERY, <<>>), FALSE)

GetPinState ==
    \E t \in AppTasks, pin \in {3} :
        QueryVerb(t, PIN_STATE_RESPONSE,
                  SysexMessage(PIN_STATE_QUERY, <<pin>>), TRUE)

\* the sleep of the polling loop of task t is over
QueryPolls(t) ==
    /\ query[t].pc = "polling"
    /\ QueryLoop(t, query[t].key, query[t].elapsed)
    /\ UNCHANGED <<ip_address, lifeVars, moreVars, mapVars, dispVars, pinVars, wireVars, spiVars>>

\* a second passes for the timed verbs that poll; the elapsed time is
\* counted up to the first value above the timeout
QueryTimePasses ==
    /\ \E t \in AppTasks :
          /\ query[t].pc = "polling"
          /\ query[t].key \in TimedKeys
          /\ query[t].elapsed <= QueryTimeout
    /\ query' = [t \in AppTasks |->
          IF query[t].pc = "polling" /\ query[t].key \in TimedKeys
          THEN [query[t] EXCEPT !.elapsed = Min(@ + 1, QueryTimeout + 1)]
          ELSE query[t]]
    /\ UNCHANGED <<ip_address, lifeVars, moreVars, mapVars, dispVars, pinVars, query_reply_data, wireVars,
                   spiVars>>

(***************************************************************************)
(* SPI verbs                                                               *)
(***************************************************************************)
\* (device_id << 3) | device_channel, for a channel below 8
DeviceIdChannel(device_id, device_channel) == device_id * 8 + device_channel

\* iterations the while loop of the SPI verbs can make from next_request_id
\* n with self.spi_request_id s: its condition (n + 1) % 128 != s turns
\* false at the first n + j that is congruent to s - 1
SpiScanLength(n, s) ==
    (s + SpiIdModulus - 1 - (n % SpiIdModulus)) % SpiIdModulus

\* a scan that takes the id it starts with, in the registry or not
SpiScanAny(n, s, used) ==
    IF SpiScanLength(n, s) = 0
    THEN [found |-> FALSE, n |-> n]
    ELSE [found |-> TRUE, n |-> n]

\* the while loop of the SPI verbs up to the first id it can take: used
\* are the keys of self.spi_requests; every id in use makes it go on with
\* n + 1 (no modulus); found = FALSE when the loop condition ends the scan
SpiScan(n, s, used) ==
    LET free == {j \in 0..(SpiScanLength(n, s) - 1) : n + j \notin used}
    IN  IF free = {}
        THEN [found |-> FALSE, n |-> n + SpiScanLength(n, s)]
        ELSE [found |-> TRUE,
              n |-> n + (CHOOSE j \in free : \A k \in free : j <= k)]

\* the else branch of the loop: the callback is passed [] (spi_write: False)
SpiFailureCallback(t) ==
    spi_failed' = [spi_failed EXCEPT ![t] = spi_failed[t] + 1]

\* after _send_sysex has returned: the next request id is calculated, the
\* loop condition is false, and the else branch of the loop runs
SpiAfterSend(t, n) ==
    /\ spi_request_id' = (n + 1) % SpiIdModulus
    /\ SpiFailureCallback(t)

\* await self.socket_transport.write(sysex_message): _send_sysex hands the
\* whole message to the socket transport in one call
SocketWrite(msg) ==
    /\ wire' = wire \o Tagged(msg, msg_seq + 1)
    /\ msg_seq' = msg_seq + 1
    /\ UNCHANGED writer

\* task t calls spi_read, spi_write or spi_transfer (verb) with the data
\* words data; over the serial transport _send_sysex does not suspend and
\* the verb runs to its end, over TCP it suspends in asyncio.sleep(.01)
SpiVerb(t, verb, data) ==
    LET r == SpiScan(spi_request_id, spi_request_id, DOMAIN spi_requests)
        n == r.n
        entry == [callback |-> spi_calls + 1, skip_read |-> (verb = SPI_WRITE)]
        send_data == <<verb, DeviceIdChannel(1, 0), n, 1, 1>> \o data
    IN  /\ spi_task[t].pc = "idle"
        /\ spi_calls < MaxSpiCalls
        /\ spi_calls' = spi_calls + 1
        /\ UNCHANGED <<dispVars, pinVars, query_reply_data, spi_reply_id,
                       query, ip_address, lifeVars, moreVars, mapVars>>
        /\ IF ~r.found
           THEN /\ SpiFailureCallback(t)
                /\ spi_task' = [spi_task EXCEPT ![t] =
                       [pc |-> "idle", next_request_id |-> n,
                        callback |-> spi_calls + 1]]
                /\ UNCHANGED <<spi_requests, spi_request_id, spi_sent,
                               spi_stores, wireVars>>
           ELSE /\ spi_requests' =
                       [i \in DOMAIN spi_requests \cup {n} |->
                           IF i = n THEN entry ELSE spi_requests[i]]
                /\ spi_stores' = spi_stores + 1
                /\ spi_sent' = spi_sent + 1
                /\ IF ip_address
                   THEN /\ SocketWrite(SysexMessage(SPI_DATA, send_data))
                        /\ spi_task' = [spi_task EXCEPT ![t] =
                               [pc |-> "sending", next_request_id |-> n,
                                callback |-> spi_calls + 1]]
                        /\ UNCHANGED <<spi_request_id, spi_failed>>
                   ELSE /\ Send(t, <<SysexMessage(SPI_DATA, send_data)>>)
                        /\ spi_task' = [spi_task EXCEPT ![t] =
                               [pc |-> "idle", next_request_id |-> n,
                                callback |-> spi_calls + 1]]
                        /\ SpiAfterSend(t, n)

SpiRead == \E t \in AppTasks : SpiVerb(t, SPI_READ, <<>>)
SpiWrite == \E t \in AppTasks : SpiVerb(t, SPI_WRITE, <<7>>)
SpiTransfer == \E t \in AppTasks : SpiVerb(t, SPI_TRANSFER, <<7>>)

\* asyncio.sleep(.01) in _send_sysex is over: the verb of task t goes on
SpiResume ==
    \E t \in AppTasks :
        /\ spi_task[t].pc = "sending"
        /\ spi_task' = [spi_task EXCEPT ![t].pc = "idle"]
        /\ SpiAfterSend(t, spi_task[t].next_request_id)
        /\ UNCHANGED <<dispVars, pinVars, query_reply_data, wireVars,
                       spi_requests, spi_sent, spi_stores, spi_calls,
                       spi_reply_id, query, ip_address, lifeVars, moreVars, mapVars>>

(***************************************************************************)
(* What the firmware sends                                                 *)
(***************************************************************************)
\* analog readings, as <<lsb, msb>>
Readings == {<<5, 0>>, <<7, 0>>, <<0, 1>>}
\* port masks, as <<lsb, msb>>
Masks == {<<0, 0>>, <<3, 0>>, <<1, 1>>}

\* an analog message for pin p; p = NumAnalogPins is a pin the board lacks
FeedAnalog ==
    \E p \in 0..NumAnalogPins, r \in Readings :
        Feed(<<ANALOG_MESSAGE + p, r[1], r[2]>>)

FeedDigital ==
    \E q \in 0..1, m \in Masks :
        Feed(<<DIGITAL_MESSAGE + q, m[1], m[2]>>)

\* replies to queries: the protocol version, the firmware id, a pin state
Replies == { <<REPORT_VERSION, 2, 5>>,
             <<START_SYSEX, REPORT_FIRMWARE, 1, 2, 70, 0, END_SYSEX>>,
             <<START_SYSEX, PIN_STATE_RESPONSE, 3, 0, 1, END_SYSEX>> }

FeedReply == \E m \in Replies : Feed(m)

\* what the dispatcher is given to dispatch: two analog readings and a
\* port mask, a version report and a firmware report, two stray bytes
Inbound == { <<ANALOG_MESSAGE, 5, 0>>, <<ANALOG_MESSAGE, 0, 1>>,
             <<DIGITAL_MESSAGE, 3, 0>>,
             <<REPORT_VERSION, 2, 5>>,
             <<START_SYSEX, REPORT_FIRMWARE, 1, 2, 70, 0, END_SYSEX>>,
             <<0>>, <<REPORT_FIRMWARE>> }

FeedInbound == \E m \in Inbound : Feed(m)

\* request ids the firmware answers
ReplyIds == {0, SpiIdModulus - 1}

\* an SPI reply: START_SYSEX, SPI_DATA, request id, END_SYSEX
FeedSpiReply ==
    \E r \in ReplyIds : Feed(<<START_SYSEX, SPI_DATA, r, END_SYSEX>>)

(***************************************************************************)
(* shutdown.  The serial port raises SerialException when a byte is        *)
(* written to it, or its input buffer is reset, after it was closed;       *)
(* loop.stop() takes effect when the running task suspends or ends, and    *)
(* loop.close() raises RuntimeError while the loop is running.             *)
(***************************************************************************)
\* disable_analog_reporting(pin): set_pin_mode_digital_input of the pin
DisableAnalogReporting(pin) == SetPinModeMessages(pin + first_analog_pin, INPUT)

\* disable_digital_reporting(pin) for every pin of the digital table
DisableDigitalReporting ==
    [i \in 1..Cardinality(DOMAIN digital_pins) |->
        <<REPORT_DIGITAL + ((i - 1) \div 8), REPORTING_DISABLE>>]

\* the bytes shutdown hands to the transport, one write each
ShutdownBytes ==
    5 * Cardinality(DOMAIN analog_pins) + 2 * Cardinality(DOMAIN digital_pins) + 1

\* shutdown from the analog pin k of its first loop on, over a transport
\* that takes the bytes; _set_pin_mode suspends in asyncio.sleep(.05) after
\* every analog pin, the rest runs without suspending: the second loop,
\* loop.stop(), send_reset, and serial_port.reset_input_buffer() and
\* close(), which raise AttributeError when serial_port is None
ShutdownFrom(k, calls) ==
    IF k < Cardinality(DOMAIN analog_pins)
    THEN /\ wire' = wire \o TaggedAll(DisableAnalogReporting(k), msg_seq)
         /\ msg_seq' = msg_seq + 2
         /\ shutdown_call' = [pc |-> "analog", pin |-> k + 1, calls |-> calls]
         /\ loop_running' = TRUE
         /\ UNCHANGED <<inbuf, serial_port, the_task>>
    ELSE LET msgs == DisableDigitalReporting \o << <<SYSTEM_RESET>> >>
         IN  /\ loop_running' = ~close_loop_on_shutdown
             /\ UNCHANGED the_task
             /\ IF ip_address
                THEN /\ wire' = wire \o TaggedAll(msgs, msg_seq)
                     /\ msg_seq' = msg_seq + Len(msgs)
                     /\ shutdown_call' = [pc |-> "raised", pin |-> 0,
                                          calls |-> calls]
                     /\ UNCHANGED <<inbuf, serial_port>>
                ELSE IF serial_port = "open"
                THEN /\ wire' = wire \o TaggedAll(msgs, msg_seq)
                     /\ msg_seq' = msg_seq + Len(msgs)
                     /\ inbuf' = <<>>
                     /\ serial_port' = "closed"
                     /\ shutdown_call' = [pc |-> "returned", pin |-> 0,
                                          calls |-> calls]
                ELSE \* no serial port: _send_command raises RuntimeError,
                     \* inside the try only when both tables are empty
                     /\ shutdown_call' =
                           [pc |-> IF ShutdownBytes = 1 THEN "returned"
                                   ELSE "raised",
                            pin |-> 0, calls |-> calls]
                     /\ UNCHANGED <<wire, msg_seq, inbuf, serial_port>>

\* a byte, the one after the n shutdown has tried to write, is written to
\* the closed serial port: write closes the port, stops the loop when
\* close_loop_on_error is set, cancels the dispatcher task and suspends in
\* asyncio.sleep(1)
ShutdownFails(n, calls) ==
    /\ the_task' = IF the_task = "running" THEN "cancelled" ELSE the_task
    /\ loop_running' = ~close_loop_on_shutdown
    /\ shutdown_call' = [pc |-> "write_failed", pin |-> n + 1, calls |-> calls]
    /\ UNCHANGED <<wire, msg_seq, inbuf, serial_port>>

\* shutdown is called, the first time or again after it has returned; the
\* caller runs the loop for it
Shutdown ==
    /\ shutdown_call.pc \in {"idle", "returned"}
    /\ shutdown_call.calls < MaxShutdownCalls
    /\ shutdown_flag' = TRUE
    /\ owed' = IF shutdown_flag THEN owed
               ELSE IF dpc # "read" THEN cur_msg
               ELSE IF inbuf # <<>> THEN NextMsg ELSE fed + 1
    /\ IF ~ip_address /\ serial_port = "closed"
       THEN ShutdownFails(0, shutdown_call.calls + 1)
       ELSE ShutdownFrom(0, shutdown_call.calls + 1)
    /\ UNCHANGED <<ip_address, close_loop_on_shutdown, first_analog_pin,
                   DIGITAL_OUTPUT_PORT_PINS, start_aio, last_digital_write,
                   pwm_value, moreVars, mapVars, fed, clock, dpc, sysex, command, cur_msg, major,
                   loop_pin, port_data, running, last_cb_msg, pinVars,
                   query_reply_data, writer, spiVars, query>>

\* the sleep shutdown is suspended in is over.  After a failed write,
\* write calls loop.close() when close_loop_on_error is set: RuntimeError,
\* caught by shutdown only around send_reset; otherwise the next byte is
\* written, and after the last one reset_input_buffer raises
\* SerialException, which shutdown catches
ShutdownResume ==
    /\ loop_running
    /\ shutdown_call.pc \in {"analog", "write_failed"}
    /\ IF shutdown_call.pc = "analog"
       THEN ShutdownFrom(shutdown_call.pin, shutdown_call.calls)
       ELSE IF ~close_loop_on_shutdown /\ shutdown_call.pin < ShutdownBytes
       THEN ShutdownFails(shutdown_call.pin, shutdown_call.calls)
       ELSE /\ shutdown_call' =
                  [pc |-> IF shutdown_call.pin = ShutdownBytes
                          THEN "returned" ELSE "raised",
                   pin |-> 0, calls |-> shutdown_call.calls]
            /\ UNCHANGED <<wire, msg_seq, inbuf, serial_port, the_task,
                           loop_running>>
    /\ UNCHANGED <<ip_address, shutdown_flag, owed, close_loop_on_shutdown,
                   first_analog_pin, DIGITAL_OUTPUT_PORT_PINS, start_aio,
                   last_digital_write, pwm_value, moreVars, mapVars, fed, clock, dpc, sysex,
                   command, cur_msg, major, loop_pin, port_data, running,
                   last_cb_msg, pinVars, query_reply_data, writer, spiVars,
                   query>>

\* the application runs the stopped event loop again
RunLoopAgain ==
    /\ ~loop_running
    /\ loop_running' = TRUE
    /\ UNCHANGED <<ip_address, dispVars, pinVars, query_reply_data, wireVars,
                   spiVars, query, shutdown_flag, close_loop_on_shutdown,
                   serial_port, first_analog_pin, DIGITAL_OUTPUT_PORT_PINS,
                   start_aio, shutdown_call, owed, last_digital_write,
                   pwm_value, moreVars, mapVars>>

\* "if self.shutdown_flag: break": the dispatcher is at the top of its loop
\* when it has dispatched the message it was in, or was waiting for, when
\* the flag was set
DispatcherBreaks ==
    /\ loop_running
    /\ shutdown_flag
    /\ the_task = "running"
    /\ dpc = "read"
    /\ cur_msg = owed
    /\ the_task' = "done"
    /\ UNCHANGED <<ip_address, lifeVars, moreVars, mapVars, inbuf, fed, clock, dpc, sysex,
                   command, cur_msg, major, loop_pin, port_data, running,
                   last_cb_msg, pinVars, query_reply_data, wireVars, spiVars,
                   query>>

\* serial_port.read() on the closed port: in_waiting raises TypeError or
\* SerialException, by platform.  Only TypeError, and only in the read at
\* the top of the loop, is caught: the dispatcher goes to the top, where
\* the flag ends it; any other exception ends the task where it is
DispatcherReadsClosedPort ==
    /\ loop_running
    /\ ~ip_address
    /\ serial_port = "closed"
    /\ the_task = "running"
    /\ dpc \in {"read", "sysex", "analog", "digital", "version",
                "version_minor"}
    /\ the_task' \in IF dpc = "read" /\ shutdown_flag
                     THEN {"done", "failed"} ELSE {"failed"}
    /\ UNCHANGED <<ip_address, lifeVars, moreVars, mapVars, inbuf, fed, clock, dpc, sysex,
                   command, cur_msg, major, loop_pin, port_data, running,
                   last_cb_msg, pinVars, query_reply_data, wireVars, spiVars,
                   query>>

(***************************************************************************)
(* Initial states                                                          *)
(***************************************************************************)
\* the firmware name and the analog map the board reported at start-up
FirmwareId == <<1, 2, 70>>
AnalogMap == [i \in 1..NumDigitalPins |->
                 IF i <= NumDigitalPins - NumAnalogPins THEN IGNORE
                 ELSE i - (NumDigitalPins - NumAnalogPins) - 1]

NoSpi ==
    /\ spi_requests = <<>>
    /\ spi_request_id = 0
    /\ spi_task = [t \in AppTasks |-> [pc |-> "idle", next_request_id |-> 0,
                                       callback |-> 0]]
    /\ spi_failed = [t \in AppTasks |-> 0]
    /\ spi_sent = 0
    /\ spi_stores = 0
    /\ spi_calls = 0
    /\ spi_reply_id = -1

\* nothing was received yet
NothingRead ==
    /\ inbuf = <<>>
    /\ fed = 0
    /\ clock = 0
    /\ dpc = "read"
    /\ sysex = <<>>
    /\ command = <<>>
    /\ cur_msg = 0
    /\ major = 0
    /\ loop_pin = 0
    /\ port_data = 0
    /\ running = <<>>
    /\ last_cb_msg = 0

DispatcherStarted ==
    /\ NothingRead
    /\ the_task = "running"

NothingWritten ==
    /\ wire = <<>>
    /\ msg_seq = 0
    /\ writer = [t \in Writers |-> <<>>]

NotQuerying == [pc |-> "idle", key |-> REPORT_VERSION, elapsed |-> 0,
                result |-> "none"]
NoQuery == query = [t \in AppTasks |-> NotQuerying]

\* the client after start_aio: the pin tables are built from the analog
\* map, the firmware id and the analog map are in their reply slots
Discovered ==
    /\ DispatcherStarted
    /\ analog_pins = [p \in 0..(NumAnalogPins - 1) |-> PinData]
    /\ digital_pins = [p \in 0..(NumDigitalPins - 1) |-> PinData]
    /\ query_reply_data =
          [k \in QueryKeys |->
              CASE k = REPORT_FIRMWARE -> [full |-> TRUE, val |-> FirmwareId]
                [] k = ANALOG_MAPPING_RESPONSE -> [full |-> TRUE, val |-> AnalogMap]
                [] OTHER -> EmptySlot]
    /\ NothingWritten
    /\ NoQuery

\* the client in start_aio, when the dispatcher task has just been created
DispatcherCreated ==
    /\ DispatcherStarted
    /\ analog_pins = <<>>
    /\ digital_pins = <<>>
    /\ query_reply_data = [k \in QueryKeys |-> EmptySlot]
    /\ NothingWritten
    /\ NoQuery

\* shutdown has not been called
NoShutdown == [pc |-> "idle", pin |-> 0, calls |-> 0]

\* start_aio is about to ask for the firmware version
NotStarted == [pc |-> "firmware", report |-> <<>>]

\* start_aio was given com_port, or an ip_address: _find_arduino does not run
PortGiven == [pc |-> "given", ports |-> <<>>, com_port |-> 0]

\* keep_alive has not been called: no interval, no task
NoKeepAlive == [period |-> 0, margin |-> 0, keep_alive_interval |-> <<>>,
                keep_alive_task |-> "none"]

\* no write has failed
NoFailure == [pc |-> "idle", n |-> 0]

\* set_pin_mode_sonar has not been called
NoSonarCall == [pc |-> "idle", trigger_pin |-> 0, callback |-> 0]

\* what __init__ leaves
Constructed ==
    /\ shutdown_flag = FALSE
    /\ loop_running = TRUE
    /\ DIGITAL_OUTPUT_PORT_PINS = [b \in 0..15 |-> 0]
    /\ shutdown_call = NoShutdown
    /\ owed = 0
    /\ last_digital_write = [p \in 0..(NumDigitalPins - 1) |-> 0]
    /\ alive = NoKeepAlive
    /\ fail = NoFailure
    /\ sonar_call = NoSonarCall
    /\ dht_list = <<>>
    /\ other_wire = <<>>
    /\ cb_query = "idle"
    /\ pin_asked = [t \in AppTasks |-> -1]
    /\ active_sonar_map = <<>>
    /\ i2c_map = <<>>
    /\ cb_called = <<>>

\* ... when start_aio has completed; it opened the socket transport when
\* ip_address is set, the serial port otherwise
AfterStart ==
    /\ Constructed
    /\ find = PortGiven
    /\ serial_port = IF ip_address THEN "none" ELSE "open"
    /\ first_analog_pin = NumDigitalPins - NumAnalogPins
    /\ start_aio = [pc |-> "started", report |-> AnalogMap]

\* ... with the default close_loop_on_shutdown, start_aio completed
Operating ==
    /\ AfterStart
    /\ close_loop_on_shutdown = TRUE
    /\ pwm_value = 0

\* ... with the default close_loop_on_shutdown, inside start_aio
Starting ==
    /\ Constructed
    /\ find = PortGiven
    /\ serial_port = IF ip_address THEN "none" ELSE "open"
    /\ close_loop_on_shutdown = TRUE
    /\ first_analog_pin = -1
    /\ start_aio = NotStarted
    /\ pwm_value = 0

\* ... over the serial transport, no SPI verb called yet
Started ==
    /\ ip_address = FALSE
    /\ Discovered
    /\ NoSpi
    /\ Operating

(***************************************************************************)
(* SPI requests                                                            *)
(***************************************************************************)
\* SPI verb calls made before the run starts
SpiPriorCalls == {0} \cup ((SpiIdModulus - MaxSpiFree)..SpiIdModulus)

\* the client after k calls of spi_read, one after the other, none answered
AfterSpiReads(k) ==
    /\ spi_requests = [i \in 0..(k - 1) |-> [callback |-> 0, skip_read |-> FALSE]]
    /\ spi_request_id = k % SpiIdModulus
    /\ spi_task = [t \in AppTasks |-> [pc |-> "idle", next_request_id |-> 0,
                                       callback |-> 0]]
    /\ spi_failed = [t \in AppTasks |-> 0]
    /\ spi_sent = 0
    /\ spi_stores = 0
    /\ spi_calls = 0
    /\ spi_reply_id = -1

StartedSpi ==
    /\ ip_address \in BOOLEAN
    /\ Discovered
    /\ \E k \in SpiPriorCalls : AfterSpiReads(k)
    /\ Operating

NextSpi ==
    \/ SpiRead
    \/ SpiWrite
    \/ SpiTransfer
    \/ SpiResume
    \/ FeedSpiReply
    \/ DispatcherRead
    \/ ReadSysexByte

SpecSpi == StartedSpi /\ [][NextSpi]_vars

\* the request ids of the protocol
SpiIds == 0..(SpiIdModulus - 1)

\* task t calls an SPI verb in this step
SpiCalled(t) ==
    /\ spi_calls' = spi_calls + 1
    /\ spi_task'[t].callback = spi_calls'

\* the verb of task t returns from _send_sysex in this step
SpiResumed(t) ==
    /\ spi_task[t].pc = "sending"
    /\ spi_task'[t].pc = "idle"

\* C3: the SPI verbs never store a request under an id that has an
\* outstanding entry: no step replaces an entry of the registry, and the
\* verbs that are in flight in different tasks at the same time each own
\* the entry under their id, so their ids differ.
C3_SpiIdsUnique ==
    /\ [](\A t \in AppTasks :
            spi_task[t].pc = "sending" =>
               /\ spi_task[t].next_request_id \in DOMAIN spi_requests
               /\ spi_requests[spi_task[t].next_request_id].callback
                     = spi_task[t].callback)
    /\ [][ \A i \in DOMAIN spi_requests \cap DOMAIN spi_requests' :
              spi_requests'[i] = spi_requests[i] ]_vars

\* two verbs in flight at once over TCP, each with an entry of its own
C3_Witness ==
    /\ ip_address
    /\ \A t \in AppTasks : spi_task[t].pc = "sending"
    /\ spi_task["app1"].next_request_id # spi_task["app2"].next_request_id
    /\ spi_stores = 2
    /\ \A t \in AppTasks :
          spi_requests[spi_task[t].next_request_id].callback
             = spi_task[t].callback

\* C4: when an SPI reply with request id r arrives and r has an
\* outstanding entry, the dispatcher invokes the callback of the entry and
\* deletes the entry.
C4_SpiReplyDeletes ==
    [][ ( /\ dpc = "sysex"
          /\ Len(sysex) = 2
          /\ sysex[1] = SPI_DATA
          /\ Len(sysex') # 2
          /\ sysex[2] \in DOMAIN spi_requests )
        => /\ sysex[2] \notin DOMAIN spi_requests'
           /\ Len(running') = Len(running) + 1
           /\ the_task' = "running" ]_vars

\* C5: with all ids 0..127 outstanding and no verb in flight, a call of an
\* SPI verb passes the failure value to its callback, writes no byte, and
\* leaves the registry and the next request id unchanged.
C5_SpiFullFails ==
    [][ ( /\ SpiIds \subseteq DOMAIN spi_requests
          /\ \A t \in AppTasks : spi_task[t].pc = "idle"
          /\ spi_calls' = spi_calls + 1 )
        => /\ spi_requests' = spi_requests
           /\ spi_request_id' = spi_request_id
           /\ wire' = wire
           /\ \E t \in AppTasks : spi_failed'[t] = spi_failed[t] + 1 ]_vars

\* C6: while an id in 0..127 has no outstanding entry, a call of an SPI
\* verb stores exactly one new entry under a free id and writes exactly
\* one SPI SysEx message, sets the next request id to (id + 1) mod 128 when
\* the message is sent, and never passes the failure value to its callback.
C6_SpiFreeIdSucceeds ==
    [][ \A t \in AppTasks :
          /\ (SpiCalled(t) /\ SpiIds \ DOMAIN spi_requests # {}) =>
                /\ \E n \in SpiIds \ DOMAIN spi_requests :
                      /\ DOMAIN spi_requests' = DOMAIN spi_requests \cup {n}
                      /\ spi_task'[t].next_request_id = n
                      /\ spi_task'[t].pc = "idle" =>
                            spi_request_id' = (n + 1) % SpiIdModulus
                /\ spi_sent' = spi_sent + 1
                /\ msg_seq' = msg_seq + 1
                /\ spi_failed'[t] = spi_failed[t]
          /\ SpiResumed(t) =>
                /\ spi_request_id' =
                      (spi_task[t].next_request_id + 1) % SpiIdModulus
                /\ spi_failed'[t] = spi_failed[t] ]_vars

(***************************************************************************)
(* Writers of the serial transport                                         *)
(***************************************************************************)
NextWire ==
    \/ FeedAnalog
    \/ SetPinModeAnalogInputCallback
    \/ DispatcherRead
    \/ WaitForData
    \/ CallbackReturns
    \/ SendKeepAlive
    \/ SetSamplingInterval
    \/ CallbackSetsSamplingInterval

SpecWire == Started /\ [][NextWire]_vars

\* the message with write number m starts with START_SYSEX
IsSysex(m) ==
    LET first == CHOOSE i \in DOMAIN wire :
                    /\ wire[i][2] = m
                    /\ \A k \in 1..(i - 1) : wire[k][2] # m
    IN  wire[first][1] = START_SYSEX

\* the bytes of msg lie on the wire one after the other as one message
OnWire(msg) ==
    \E i \in 1..(Len(wire) - Len(msg) + 1) :
        \A k \in 1..Len(msg) :
            /\ wire[i + k - 1][1] = msg[k]
            /\ wire[i + k - 1][2] = wire[i][2]

\* C7: the bytes of one outbound SysEx message are contiguous on the wire:
\* a byte of a SysEx message that is not its END_SYSEX is followed by a
\* byte of the same message, whichever of the keep-alive task, an
\* application task and a user callback write at the time.
C7_SysexContiguous ==
    \A i \in 1..(Len(wire) - 1) :
        (IsSysex(wire[i][2]) /\ wire[i][1] # END_SYSEX)
           => wire[i + 1][2] = wire[i][2]

\* a keep-alive, the message of an application task and the message of a
\* user callback are on the wire, each in one piece
C7_Witness ==
    /\ OnWire(<<START_SYSEX, KEEP_ALIVE, 1, 0, END_SYSEX>>)
    /\ OnWire(<<START_SYSEX, SAMPLING_INTERVAL, 19, 0, END_SYSEX>>)
    /\ OnWire(<<START_SYSEX, SAMPLING_INTERVAL, 72, 1, END_SYSEX>>)

(***************************************************************************)
(* The dispatcher                                                          *)
(***************************************************************************)
NextDisp ==
    \/ FeedInbound
    \/ SetPinModeAnalogInputCallback
    \/ SetPinModeDigitalInputCallback
    \/ DispatcherRead
    \/ ReadSysexByte
    \/ WaitForData
    \/ ReadVersionByte
    \/ CallbackReturns

SpecDisp == Started /\ [][NextDisp]_vars

\* the values the handlers store
StoredValues ==
    <<[p \in DOMAIN analog_pins |-> analog_pins[p].current_value],
      [p \in DOMAIN digital_pins |-> digital_pins[p].current_value],
      query_reply_data>>

\* C8: while a user callback the dispatcher invoked has not completed, the
\* dispatcher reads no byte and starts no handler or callback: at most one
\* callback runs, the dispatcher stands in the handler that awaits it, no
\* byte leaves the transport and no handler stores anything; and the
\* callbacks are invoked in the order of arrival of their messages.
C8_CallbackBlocksDispatcher ==
    /\ [](/\ Len(running) <= 1
          /\ running # <<>> => dpc \in {"cb_analog", "cb_digital"})
    /\ [][ /\ running # <<>> =>
                /\ Len(inbuf') >= Len(inbuf)
                /\ running' = running =>
                      /\ UNCHANGED <<dpc, sysex, command, cur_msg>>
                      /\ StoredValues' = StoredValues
           /\ last_cb_msg' >= last_cb_msg
           /\ (running' # running /\ running' # <<>>) =>
                 running'[1].msg = cur_msg' ]_vars

\* the callback for the first message runs while the second message waits
\* in the transport
C8_Witness ==
    /\ Len(running) = 1
    /\ running[1].msg = 1
    /\ dpc \in {"cb_analog", "cb_digital"}
    /\ inbuf # <<>>
    /\ Head(inbuf)[2] = 2

\* the byte b starts a message the dispatcher recognizes
Recognized(b) ==
    \/ b = START_SYSEX
    \/ (144 <= b /\ b <= 159)
    \/ (224 <= b /\ b <= 239)
    \/ b = REPORT_VERSION

\* C9: a byte read between messages that starts no recognized message is
\* dropped: no callback is invoked, no pin, registry or query-slot state
\* changes, and the dispatcher goes on to read the next byte.
C9_StrayByteDropped ==
    [][ ( /\ the_task = "running"
          /\ dpc = "read"
          /\ inbuf # <<>>
          /\ inbuf' = Tail(inbuf)
          /\ ~Recognized(Head(inbuf)[1]) )
        => /\ the_task' = "running"
           /\ dpc' = "read"
           /\ running' = running
           /\ UNCHANGED <<analog_pins, digital_pins, spi_requests,
                          query_reply_data>> ]_vars

(***************************************************************************)
(* Queries                                                                 *)
(***************************************************************************)
StartedQuery ==
    /\ ip_address = FALSE
    /\ NoSpi
    /\ ((Discovered /\ Operating) \/ (DispatcherCreated /\ Starting))

NextQuery ==
    \/ GetFirmwareVersion
    \/ GetProtocolVersion
    \/ GetAnalogMap
    \/ GetCapabilityReport
    \/ GetPinState
    \/ \E t \in AppTasks : QueryPolls(t)
    \/ QueryTimePasses
    \/ FeedReply
    \/ DispatcherRead
    \/ ReadSysexByte
    \/ ReadVersionByte

SpecQuery == StartedQuery /\ [][NextQuery]_vars

\* the event loop runs every task that is ready, and time passes
SpecQueryFair ==
    /\ SpecQuery
    /\ \A t \in AppTasks : WF_vars(QueryPolls(t))
    /\ WF_vars(QueryTimePasses)
    /\ WF_vars(DispatcherRead)
    /\ WF_vars(ReadSysexByte)
    /\ WF_vars(ReadVersionByte)

\* C10: every one-shot query verb eventually returns to its caller, with
\* the reply or with a timeout result, whether or not the firmware replies.
C10_QueryReturns ==
    \A t \in AppTasks : (query[t].pc = "polling") ~> (query[t].pc = "done")

\* C11: a call of a one-shot query verb empties the reply slot of the verb,
\* writes its query and then polls: the step that makes the call writes one
\* message, leaves the slot empty and leaves the verb polling, so that the
\* reply it returns is one the dispatcher stored after the write and never
\* one that was in the slot before the call.
C11_QueryReturnsFreshReply ==
    [][ \A t \in AppTasks :
          (query[t].pc # "polling" /\ query'[t] # query[t])
             => /\ msg_seq' = msg_seq + 1
                /\ ~query_reply_data'[query'[t].key].full
                /\ query'[t].pc = "polling" ]_vars

(***************************************************************************)
(* 7-bit data bytes                                                        *)
(***************************************************************************)
\* the application writes one value, any of the 14-bit values
StartedPwm ==
    /\ ip_address = FALSE
    /\ Discovered
    /\ NoSpi
    /\ AfterStart
    /\ close_loop_on_shutdown = TRUE
    /\ pwm_value \in 0..16383

NextPwm == PwmWrite

SpecPwm == StartedPwm /\ [][NextPwm]_vars

\* the data bytes lsb, msb of the message that starts at wire[i], as the
\* analog handler is handed them: [pin, lsb, msb]
PwmData(i) ==
    IF wire[i][1] = START_SYSEX
    THEN <<wire[i + 2][1], wire[i + 3][1], wire[i + 4][1]>>
    ELSE <<wire[i][1] % 16, wire[i + 1][1], wire[i + 2][1]>>

\* a message of pwm_write starts at wire[i]
PwmStartsAt(i) ==
    \/ 224 <= wire[i][1] /\ wire[i][1] <= 239 /\ i + 2 <= Len(wire)
    \/ /\ wire[i][1] = START_SYSEX
       /\ i + 4 <= Len(wire)
       /\ wire[i + 1][1] = EXTENDED_ANALOG

\* C17: for every v in 0..16383 the two data bytes the client writes for v
\* are each in 0..127, and the rule of the analog handler, (msb << 7) + lsb,
\* gives v back.
C17_SevenBitRoundTrip ==
    \A i \in DOMAIN wire :
        PwmStartsAt(i) =>
            /\ PwmData(i)[LSB + 1] \in 0..127
            /\ PwmData(i)[MSB + 1] \in 0..127
            /\ Combine(PwmData(i)) = pwm_value

\* the largest value, whose two data bytes are both 127, written both ways
C17_Witness ==
    /\ pwm_value = 16383
    /\ OnWire(<<ANALOG_MESSAGE + 3, 127, 127>>)
    /\ OnWire(<<START_SYSEX, EXTENDED_ANALOG, 16, 127, 127, 0, END_SYSEX>>)

(***************************************************************************)
(* Analog input                                                            *)
(***************************************************************************)
NextAnalog ==
    \/ FeedAnalog
    \/ Tick
    \/ SetPinModeAnalogInput
    \/ DispatcherRead
    \/ WaitForData
    \/ CallbackReturns

SpecAnalog == Started /\ [][NextAnalog]_vars

\* the dispatcher is about to read the last byte of an analog message
AnalogCompletes ==
    /\ dpc = "analog"
    /\ Len(command) = 2
    /\ command' # command

\* the record of a callback invocation made for the message being dispatched
Invocation(message) == [message |-> message, msg |-> cur_msg]

\* C1: an analog message [0xE0+p, b0, b1] for an analog pin p, with
\* v = (b1<<7)|b0 (b0, b1 are 7-bit data bytes), prev the stored value and d
\* the threshold of p: when |v - prev| >= d, current_value becomes v and
\* p's callback, if one is registered, is invoked exactly once with
\* [ANALOG, p, v, time]; otherwise no callback is invoked and the pin table
\* is left as it is, so prev stays the last accepted value.  No other step
\* invokes a callback.
C1_AnalogDifferential ==
    [][ /\ AnalogCompletes =>
             LET p == command'[1]
                 v == command'[3] * 128 + command'[2]
             IN  p \in DOMAIN analog_pins =>
                   IF Abs(v - analog_pins[p].current_value)
                         >= analog_pins[p].differential
                   THEN /\ analog_pins'[p].current_value = v
                        /\ \A o \in DOMAIN analog_pins \ {p} :
                              analog_pins'[o] = analog_pins[o]
                        /\ running' =
                              IF analog_pins[p].cb
                              THEN Append(running,
                                          Invocation(<<ANALOG, p, v, clock>>))
                              ELSE running
                   ELSE /\ running' = running
                        /\ analog_pins' = analog_pins
        /\ Len(running') > Len(running) => AnalogCompletes ]_vars

\* with threshold 5 the reading 5 was accepted and reported, and the
\* reading 7 after it was dropped: the stored value is still 5
C1_Witness ==
    /\ fed = 2
    /\ cur_msg = 2
    /\ dpc = "read"
    /\ command = <<0, 7, 0>>
    /\ analog_pins[0].cb
    /\ analog_pins[0].differential = 5
    /\ analog_pins[0].current_value = 5
    /\ last_cb_msg = 1
    /\ running = <<>>

(***************************************************************************)
(* Digital input                                                           *)
(***************************************************************************)
NextDigital ==
    \/ FeedDigital
    \/ Tick
    \/ SetPinModeDigitalInput
    \/ SetPinModeDigitalInputPullup
    \/ DispatcherRead
    \/ WaitForData
    \/ CallbackReturns

SpecDigital == Started /\ [][NextDigital]_vars

\* the bit of pin j in the port mask of the digital message in msg
MaskBit(msg, j) ==
    LET mask == msg[3] * 128 + msg[2]
        i == j - 8 * msg[1]
    IN  (mask \div (2 ^ i)) % 2

\* the existing pins of the port of msg from pin start on
PortPins(msg, start) ==
    {j \in DOMAIN digital_pins : start <= j /\ j < 8 * msg[1] + 8}

\* the loop of _digital_message runs over the pins from start on, of the
\* message msg, with the callbacks base still running: it stores the bit
\* of every pin up to and including the first changed pin that has a
\* callback, invokes that callback with [PULLUP or INPUT, pin, bit, time],
\* and touches no later pin; without such a pin it stores every bit and
\* invokes nothing
DigitalSegment(msg, start, base) ==
    LET changed == {j \in PortPins(msg, start) :
                       /\ digital_pins[j].cb
                       /\ digital_pins[j].current_value # MaskBit(msg, j)}
    IN  IF changed = {}
        THEN /\ running' = base
             /\ \A j \in PortPins(msg, start) :
                   digital_pins'[j].current_value = MaskBit(msg, j)
        ELSE LET first == CHOOSE j \in changed : \A k \in changed : j <= k
                 pin_type == IF digital_pins[first].pull_up THEN PULLUP
                             ELSE INPUT
             IN  /\ running' = Append(base,
                        Invocation(<<pin_type, first, MaskBit(msg, first), clock>>))
                 /\ loop_pin' = first
                 /\ \A j \in PortPins(msg, start) :
                       digital_pins'[j].current_value =
                          IF j <= first THEN MaskBit(msg, j)
                          ELSE digital_pins[j].current_value

\* the dispatcher is about to read the last byte of a digital message
DigitalCompletes ==
    /\ dpc = "digital"
    /\ Len(command) = 2
    /\ command' # command

\* a callback invoked by _digital_message completes
DigitalResumes ==
    /\ dpc = "cb_digital"
    /\ running # <<>>
    /\ running' # running

NeverOpened ==
    /\ ip_address = FALSE
    /\ NothingRead
    /\ the_task = "none"
    /\ analog_pins = <<>>
    /\ digital_pins = <<>>
    /\ query_reply_data = [k \in QueryKeys |-> EmptySlot]
    /\ NothingWritten
    /\ NoQuery
    /\ Constructed
    /\ find = PortGiven
    /\ serial_port = "none"
    /\ first_analog_pin = -1
    /\ start_aio = NotStarted

StartedShutdown ==
    /\ ip_address \in BOOLEAN
    /\ close_loop_on_shutdown \in BOOLEAN
    /\ NoSpi
    /\ pwm_value = 0
    /\ (Discovered /\ AfterStart) \/ NeverOpened

\* a task runs while the loop runs; a write or a read gets through while
\* the transport is open; _send_keep_alive tests the flag before each
\* round, the dispatcher before each read of a first byte
NextShutdown ==
    \/ Shutdown
    \/ ShutdownResume
    \/ RunLoopAgain
    \/ DispatcherBreaks
    \/ DispatcherReadsClosedPort
    \/ ((ip_address \/ serial_port = "open") /\ FeedAnalog)
    \/ (loop_running /\ (ip_address \/ serial_port = "open")
          /\ ~(shutdown_flag /\ cur_msg = owed) /\ DispatcherRead)
    \/ (loop_running /\ (ip_address \/ serial_port = "open") /\ WaitForData)
    \/ (loop_running /\ (ip_address \/ serial_port = "open")
          /\ ~shutdown_flag /\ SendKeepAlive)
    \/ (loop_running /\ (ip_address \/ serial_port = "open")
          /\ SetSamplingInterval)

SpecShutdown == StartedShutdown /\ [][NextShutdown]_vars

\* the running loop goes on with every task that can go on; nothing makes
\* the application run a stopped loop again
SpecShutdownFair ==
    /\ SpecShutdown
    /\ WF_vars(ShutdownResume)
    /\ WF_vars(DispatcherBreaks)
    /\ WF_vars(DispatcherReadsClosedPort)
    /\ WF_vars(loop_running /\ (ip_address \/ serial_port = "open")
                  /\ ~(shutdown_flag /\ cur_msg = owed) /\ DispatcherRead)
    /\ WF_vars(loop_running /\ (ip_address \/ serial_port = "open")
                  /\ WaitForData)

\* C12: a second call of shutdown returns normally, writes no byte and
\* leaves the flag, the transport and the pin tables as the first call left
\* them
C12_ShutdownIdempotent ==
    [][ (shutdown_call' # shutdown_call /\ shutdown_call'.calls = 2)
           => /\ shutdown_call'.pc # "raised"
              /\ wire' = wire
              /\ UNCHANGED <<shutdown_flag, serial_port, pinVars>> ]_vars

\* shutdown has written SYSTEM_RESET
ResetWritten == \E i \in DOMAIN wire : wire[i][1] = SYSTEM_RESET

\* the value byte of the last REPORT_DIGITAL message written for port
LastReportDigital(port) ==
    LET at == {i \in DOMAIN wire : wire[i][1] = REPORT_DIGITAL + port}
    IN  IF at = {} THEN REPORTING_DISABLE
        ELSE wire[(CHOOSE i \in at : \A j \in at : j <= i) + 1][1]

\* C13: shutdown sets the flag before it writes; when it has written
\* SYSTEM_RESET, the last REPORT_DIGITAL message of every port carries 0,
\* the transport is closed, and SYSTEM_RESET is the last byte written
C13_ShutdownOrder ==
    /\ shutdown_call.pc # "idle" => shutdown_flag
    /\ ResetWritten =>
          /\ \A port \in 0..((NumDigitalPins - 1) \div 8) :
                 LastReportDigital(port) = REPORTING_DISABLE
          /\ wire[Len(wire)][1] = SYSTEM_RESET
          /\ ~ip_address /\ serial_port = "closed"

\* C14: shutdown never raises, and when it has returned the transport is
\* not open
C14_ShutdownNeverRaises ==
    /\ shutdown_call.pc # "raised"
    /\ shutdown_call.pc = "returned" => ~(ip_address \/ serial_port = "open")

\* C15: once the flag is set the dispatcher dispatches no message after
\* the one it was in or was waiting for, and over the serial transport it
\* eventually leaves its loop, also when no further byte arrives
C15_DispatcherExits ==
    /\ [](shutdown_flag => cur_msg <= owed)
    /\ (~ip_address /\ shutdown_flag /\ the_task = "running")
          ~> (the_task # "running")

(***************************************************************************)
(* Digital output and the pin-mode setters: the started client over the    *)
(* serial transport, the application calls the verbs one after the other   *)
(***************************************************************************)
NextOutput ==
    \/ DigitalWrite
    \/ DigitalPinWrite
    \/ SetPinModeAnalogInput
    \/ SetPinModeDigitalInput
    \/ SetPinModeDigitalInputPullup
    \/ SetPinModeDigitalOutput
    \/ SetPinModePwmOutput

SpecOutput == Started /\ [][NextOutput]_vars

\* bit q of a shadow entry
ShadowBit(entry, q) == (entry \div (2 ^ q)) % 2

\* C19: bit pin % 8 of shadow entry pin // 8 is the value of the most
\* recent digital_write to the pin, 0 when there was none, and a
\* digital_write sends exactly DIGITAL_MESSAGE + pin // 8 and the low and
\* high seven bits of the entry as it is after the update
C19_ShadowHoldsLastWrite ==
    /\ [](\A pin \in DOMAIN last_digital_write :
             ShadowBit(DIGITAL_OUTPUT_PORT_PINS[pin \div 8], pin % 8)
                = last_digital_write[pin])
    /\ [][ \A pin \in DigitalWritePins, value \in {0, 1} :
              DigitalWriteOf(pin, value) =>
                 LET entry == DIGITAL_OUTPUT_PORT_PINS'[pin \div 8]
                 IN  wire' = wire \o Tagged(<<DIGITAL_MESSAGE + (pin \div 8),
                                               entry % 128,
                                               (entry \div 128) % 128>>,
                                             msg_seq + 1) ]_vars

\* pin 0 was set and cleared again while pin 7 stays set: the message of
\* the write to pin 7 carried both bits, the shadow now holds bit 7 only
C19_Witness ==
    /\ DIGITAL_OUTPUT_PORT_PINS[0] = 128
    /\ last_digital_write[0] = 0
    /\ last_digital_write[7] = 1
    /\ OnWire(<<DIGITAL_MESSAGE, 1, 1>>)
    /\ OnWire(<<DIGITAL_MESSAGE, 0, 1>>)

\* C20: a setter for pin n writes SET_PIN_MODE, pin, mode, then for INPUT
\* and PULLUP REPORT_DIGITAL + n // 8 with 1, and nothing else; for ANALOG
\* the pin byte is n + first_analog_pin and the callback and the
\* differential are recorded on analog record n
C20_SetterWrites ==
    [][ \A t \in AppTasks, callback \in BOOLEAN, d \in Differentials \cup {1} :
          /\ \A n \in DOMAIN digital_pins, mode \in {INPUT, PULLUP, OUTPUT, PWM} :
                SetPinMode(t, n, mode, callback, d) =>
                   wire' = wire
                      \o Tagged(<<SET_PIN_MODE, n, mode>>, msg_seq + 1)
                      \o (IF mode \in {INPUT, PULLUP}
                          THEN Tagged(<<REPORT_DIGITAL + (n \div 8), 1>>,
                                      msg_seq + 2)
                          ELSE <<>>)
          /\ \A n \in DOMAIN analog_pins :
                SetPinMode(t, n, ANALOG, callback, d) =>
                   /\ wire' = wire \o Tagged(<<SET_PIN_MODE,
                                                n + first_analog_pin, ANALOG>>,
                                              msg_seq + 1)
                   /\ callback => analog_pins'[n].cb
                   /\ analog_pins'[n].differential = d ]_vars

(***************************************************************************)
(* The port shadow: digital output next to inbound digital messages; the   *)
(* last verb the application calls is shutdown                             *)
(***************************************************************************)
NextShadow ==
    \/ (~shutdown_flag /\ DigitalWrite)
    \/ (~shutdown_flag /\ DigitalPinWrite)
    \/ (~shutdown_flag /\ SetPinModeDigitalOutput)
    \/ (serial_port = "open" /\ FeedDigital)
    \/ (loop_running /\ serial_port = "open"
          /\ ~(shutdown_flag /\ cur_msg = owed) /\ DispatcherRead)
    \/ (loop_running /\ serial_port = "open" /\ WaitForData)
    \/ Shutdown
    \/ ShutdownResume

SpecShadow == Started /\ [][NextShadow]_vars

\* C18: only digital_write changes the port shadow, and digital_write(pin,
\* v) changes at most bit pin % 8 of entry pin // 8; digital_pin_write, the
\* setters, inbound digital messages and shutdown leave the shadow as it is
C18_ShadowFrame ==
    [][ /\ DIGITAL_OUTPUT_PORT_PINS' # DIGITAL_OUTPUT_PORT_PINS => DigitalWrite
        /\ \A pin \in DigitalWritePins, value \in {0, 1} :
              DigitalWriteOf(pin, value) =>
                 \A b \in DOMAIN DIGITAL_OUTPUT_PORT_PINS, q \in 0..7 :
                    ShadowBit(DIGITAL_OUTPUT_PORT_PINS'[b], q)
                          # ShadowBit(DIGITAL_OUTPUT_PORT_PINS[b], q)
                       => (b = pin \div 8 /\ q = pin % 8) ]_vars

\* bits 0 and 7 of entry 0 and a bit of entry 1 were written, a digital
\* message was dispatched, and shutdown has returned
C18_Witness ==
    /\ DIGITAL_OUTPUT_PORT_PINS[0] = 129
    /\ DIGITAL_OUTPUT_PORT_PINS[1] > 0
    /\ digital_pins[1].current_value = 1
    /\ shutdown_call.pc = "returned"

(***************************************************************************)
(* Discovery: start_aio has the firmware version, has asked for the analog *)
(* map and polls for it; the outbound side holds what is written from here *)
(* on.  The application calls the other verbs when start_aio has returned. *)
(***************************************************************************)
\* a table that gets an analog record for every byte of the map
AnalogRecordsAll(report) == Len(report)

\* the analog records start_aio appends: one per byte that is not IGNORE
AnalogRecords(report) ==
    Cardinality({i \in DOMAIN report : report[i] # IGNORE})

\* the analog maps a board may report: the map of the board above, that
\* map with one more analog pin, with one more digital pin, and no map
AnalogMaps == {AnalogMap, AnalogMap \o <<NumAnalogPins>>,
               <<IGNORE>> \o AnalogMap, <<>>}

FeedAnalogMap ==
    \E report \in AnalogMaps :
        Feed(SysexMessage(ANALOG_MAPPING_RESPONSE, report))

AwaitingAnalogMap ==
    /\ ip_address = FALSE
    /\ NoSpi
    /\ DispatcherStarted
    /\ analog_pins = <<>>
    /\ digital_pins = <<>>
    /\ query_reply_data =
          [k \in QueryKeys |->
              IF k = REPORT_FIRMWARE THEN [full |-> TRUE, val |-> FirmwareId]
              ELSE EmptySlot]
    /\ NothingWritten
    /\ query = [t \in AppTasks |->
                  IF t = "app1"
                  THEN [pc |-> "polling", key |-> ANALOG_MAPPING_RESPONSE,
                        elapsed |-> 0, result |-> "none"]
                  ELSE NotQuerying]
    /\ Constructed
    /\ find = PortGiven
    /\ serial_port = "open"
    /\ close_loop_on_shutdown = TRUE
    /\ first_analog_pin = -1
    /\ start_aio = [pc |-> "map", report |-> <<>>]
    /\ pwm_value = 0

\* get_analog_map has returned to start_aio: without a report (a timeout,
\* or an empty map) start_aio calls shutdown and raises RuntimeError;
\* otherwise it builds the pin tables, sets first_analog_pin and calls
\* set_sampling_interval(19)
StartAioGoesOn ==
    /\ start_aio.pc = "map"
    /\ query["app1"].pc = "done"
    /\ query' = [query EXCEPT !["app1"] = NotQuerying]
    /\ LET report == IF query["app1"].result = "reply"
                     THEN query_reply_data[ANALOG_MAPPING_RESPONSE].val
                     ELSE <<>>
       IN  IF report = <<>>
           THEN /\ shutdown_flag' = TRUE
                /\ ShutdownFrom(0, 1)
                /\ start_aio' = [pc |-> "failed", report |-> report]
                /\ UNCHANGED <<pinVars, first_analog_pin, writer>>
           ELSE /\ digital_pins' = [p \in 0..(Len(report) - 1) |-> PinData]
                /\ analog_pins' =
                      [p \in 0..(AnalogRecords(report) - 1) |-> PinData]
                /\ first_analog_pin' = Len(report) - AnalogRecords(report)
                /\ Send("app1", <<SysexMessage(SAMPLING_INTERVAL,
                                               <<19 % 128, (19 \div 128) % 128>>)>>)
                /\ start_aio' = [pc |-> "started", report |-> report]
                /\ UNCHANGED <<shutdown_flag, shutdown_call, loop_running,
                               serial_port, inbuf, the_task>>
    /\ UNCHANGED <<ip_address, close_loop_on_shutdown,
                   DIGITAL_OUTPUT_PORT_PINS, owed, last_digital_write,
                   pwm_value, moreVars, mapVars, fed, clock, dpc, sysex, command, cur_msg, major,
                   loop_pin, port_data, running, last_cb_msg,
                   query_reply_data, spiVars>>

NextStart ==
    \/ StartAioGoesOn
    \/ \E t \in AppTasks : QueryPolls(t)
    \/ QueryTimePasses
    \/ (serial_port = "open" /\ FeedAnalogMap)
    \/ (serial_port = "open" /\ FeedAnalog)
    \/ (serial_port = "open" /\ FeedDigital)
    \/ (serial_port = "open" /\ DispatcherRead)
    \/ (serial_port = "open" /\ ReadSysexByte)
    \/ (serial_port = "open" /\ WaitForData)
    \/ CallbackReturns
    \/ (start_aio.pc = "started" /\ SetPinModeAnalogInput)
    \/ (start_aio.pc = "started" /\ SetPinModeDigitalInput)
    \/ (start_aio.pc = "started" /\ GetPinState)

SpecStart == AwaitingAnalogMap /\ [][NextStart]_vars

\* C16: after a successful start the digital table has one record per byte
\* of the analog map, the analog table one per byte that is not IGNORE,
\* first_analog_pin is the difference of their lengths, and this stays so
\* whatever is called or received later
C16_TablesFollowMap ==
    start_aio.pc = "started" =>
       /\ Cardinality(DOMAIN digital_pins) = Len(start_aio.report)
       /\ Cardinality(DOMAIN analog_pins)
             = Cardinality({i \in DOMAIN start_aio.report :
                               start_aio.report[i] # IGNORE})
       /\ first_analog_pin
             = Cardinality(DOMAIN digital_pins) - Cardinality(DOMAIN analog_pins)

\* the board reported one digital pin more; after the start a setter
\* recorded a callback and a digital message was dispatched
C16_Witness ==
    /\ start_aio.pc = "started"
    /\ start_aio.report = <<IGNORE>> \o AnalogMap
    /\ first_analog_pin = NumDigitalPins - NumAnalogPins + 1
    /\ analog_pins[0].cb
    /\ digital_pins[0].current_value = 1

(***************************************************************************)
(* keep_alive and the keep-alive task; writes to a broken serial port      *)
(***************************************************************************)
\* the periods (seconds) and margins (tenths of a second) the application
\* passes to keep_alive: off, the smallest period, and a period and a margin
\* above the documented ranges 0..10 and 0.1..0.9
KeepAlivePeriods == {0, 1, 11}
KeepAliveMargins == {3, 20}

\* period & 0x7f, (period >> 7) & 0x7f
KeepAliveInterval(period) == <<period % 128, (period \div 128) % 128>>

\* keep_alive(period, margin), called by an application task: it stores
\* both arguments as they are; with period 0 and a task object (cancelled
\* or not) it cancels the task and returns; otherwise it stores the
\* interval and creates the task when there is no task object
KeepAlive(period, margin) ==
    /\ loop_running
    /\ alive.keep_alive_task # "spinning"
    /\ alive' =
          IF period = 0 /\ alive.keep_alive_task # "none"
          THEN [alive EXCEPT !.period = period, !.margin = margin,
                             !.keep_alive_task =
                                IF @ = "running" THEN "cancelled" ELSE @]
          ELSE [period |-> period, margin |-> margin,
                keep_alive_interval |-> KeepAliveInterval(period),
                keep_alive_task |-> IF alive.keep_alive_task = "none"
                                    THEN "running"
                                    ELSE alive.keep_alive_task]
    /\ UNCHANGED <<ip_address, lifeVars, fail, find, sonar_call, lateVars, mapVars,
                   dispVars, pinVars, query_reply_data, wireVars, spiVars,
                   query>>

\* a write of a byte to a serial port that is unplugged or closed:
\* PymataExpressSerial.write closes the port, stops the loop when
\* close_loop_on_error is set, cancels the dispatcher task and suspends in
\* asyncio.sleep(1)
WriteFails ==
    /\ serial_port' = "closed"
    /\ the_task' = IF the_task = "running" THEN "cancelled" ELSE the_task
    /\ loop_running' = ~close_loop_on_shutdown

\* one round of "while not self.shutdown_flag" in _send_keep_alive: with a
\* period it writes KEEP_ALIVE with the stored interval and sleeps for
\* period - margin; with period 0 the body has no await, so the task goes
\* round the loop without ever giving the event loop back
SendKeepAliveRound ==
    /\ loop_running
    /\ alive.keep_alive_task = "running"
    /\ IF shutdown_flag
       THEN /\ alive' = [alive EXCEPT !.keep_alive_task = "done"]
            /\ UNCHANGED <<wireVars, serial_port, the_task, loop_running>>
       ELSE IF alive.period = 0
       THEN /\ alive' = [alive EXCEPT !.keep_alive_task = "spinning"]
            /\ UNCHANGED <<wireVars, serial_port, the_task, loop_running>>
       ELSE IF serial_port = "open"
       THEN LET msgs == <<SysexMessage(KEEP_ALIVE, alive.keep_alive_interval)>>
            IN  /\ WireHasRoom(msgs, MaxSysexWire)
                /\ Send("keep_alive", msgs)
                /\ UNCHANGED <<alive, serial_port, the_task, loop_running>>
       ELSE /\ WriteFails
            /\ UNCHANGED <<alive, wireVars>>
    /\ UNCHANGED <<ip_address, shutdown_flag, close_loop_on_shutdown,
                   first_analog_pin, DIGITAL_OUTPUT_PORT_PINS, start_aio,
                   shutdown_call, owed, last_digital_write, pwm_value, fail,
                   find, sonar_call, lateVars, mapVars, inbuf, fed, clock, dpc, sysex,
                   command, cur_msg, major, loop_pin, port_data, running,
                   last_cb_msg, pinVars, query_reply_data, spiVars, query>>

\* the board is unplugged: the port stays open, its next write raises
\* SerialException
Unplug ==
    /\ serial_port = "open"
    /\ serial_port' = "unplugged"
    /\ UNCHANGED <<ip_address, shutdown_flag, close_loop_on_shutdown,
                   loop_running, first_analog_pin, DIGITAL_OUTPUT_PORT_PINS,
                   start_aio, shutdown_call, owed, last_digital_write,
                   pwm_value, moreVars, mapVars, dispVars, pinVars,
                   query_reply_data, wireVars, spiVars, query>>

\* the bytes of the verb whose write fails: set_sampling_interval(19)
FailingMessage == SysexMessage(SAMPLING_INTERVAL, <<19 % 128, (19 \div 128) % 128>>)

\* set_sampling_interval, called by an application task
SetSamplingIntervalCall ==
    /\ loop_running
    /\ alive.keep_alive_task # "spinning"
    /\ fail.pc \in {"idle", "returned"}
    /\ IF serial_port = "open"
       THEN /\ WireHasRoom(<<FailingMessage>>, MaxSysexWire)
            /\ Send("app1", <<FailingMessage>>)
            /\ UNCHANGED <<serial_port, the_task, loop_running, fail>>
       ELSE /\ WriteFails
            /\ fail' = [pc |-> "write_failed", n |-> 1]
            /\ UNCHANGED wireVars
    /\ UNCHANGED <<ip_address, shutdown_flag, close_loop_on_shutdown,
                   first_analog_pin, DIGITAL_OUTPUT_PORT_PINS, start_aio,
                   shutdown_call, owed, last_digital_write, pwm_value, alive,
                   find, sonar_call, lateVars, mapVars, inbuf, fed, clock, dpc, sysex,
                   command, cur_msg, major, loop_pin, port_data, running,
                   last_cb_msg, pinVars, query_reply_data, spiVars, query>>

\* the sleep of the failed write is over: with close_loop_on_error,
\* loop.close() raises RuntimeError from the running loop; without it,
\* write returns None, _send_sysex writes the next byte, which fails the
\* same way, and after the last byte the verb returns normally
FailedWriteResumes ==
    /\ loop_running
    /\ alive.keep_alive_task # "spinning"
    /\ fail.pc = "write_failed"
    /\ IF close_loop_on_shutdown
       THEN /\ fail' = [fail EXCEPT !.pc = "raised"]
            /\ UNCHANGED <<serial_port, the_task, loop_running>>
       ELSE IF fail.n < Len(FailingMessage)
       THEN /\ WriteFails
            /\ fail' = [fail EXCEPT !.n = @ + 1]
       ELSE /\ fail' = [fail EXCEPT !.pc = "returned"]
            /\ UNCHANGED <<serial_port, the_task, loop_running>>
    /\ UNCHANGED <<ip_address, shutdown_flag, close_loop_on_shutdown,
                   first_analog_pin, DIGITAL_OUTPUT_PORT_PINS, start_aio,
                   shutdown_call, owed, last_digital_write, pwm_value, alive,
                   find, sonar_call, lateVars, mapVars, inbuf, fed, clock, dpc, sysex,
                   command, cur_msg, major, loop_pin, port_data, running,
                   last_cb_msg, pinVars, query_reply_data, wireVars, spiVars,
                   query>>

\* the client over the serial transport, with either setting of
\* close_loop_on_shutdown, which is also the transport's close_loop_on_error
StartedKeepAlive ==
    /\ ip_address = FALSE
    /\ Discovered
    /\ NoSpi
    /\ AfterStart
    /\ close_loop_on_shutdown \in BOOLEAN
    /\ pwm_value = 0

NextKeepAlive ==
    \/ \E period \in KeepAlivePeriods, margin \in KeepAliveMargins :
          KeepAlive(period, margin)
    \/ SendKeepAliveRound
    \/ Unplug
    \/ SetSamplingIntervalCall
    \/ FailedWriteResumes
    \/ RunLoopAgain

SpecKeepAlive == StartedKeepAlive /\ [][NextKeepAlive]_vars

\* C21: once keep_alive(0) has returned, and until keep_alive is called
\* with a period above 0, no keep-alive task runs, whether or not one ran
\* before the call, and no task is left that runs without yielding
C21_KeepAliveOff ==
    (alive.period = 0 /\ alive.keep_alive_interval # <<>>)
        => alive.keep_alive_task \notin {"running", "spinning"}

\* C22: keep_alive with a period outside 0..10 or a margin outside 0.1..0.9
\* starts no task and leaves the stored period, margin and interval, and
\* the bytes written, as they were
C22_KeepAliveValidates ==
    [][\A period \in KeepAlivePeriods, margin \in KeepAliveMargins :
          (KeepAlive(period, margin)
             /\ ~(period \in 0..10 /\ margin \in 1..9))
          => UNCHANGED <<alive, wire>>]_vars

\* C27: when a write to the transport has failed, the shutdown flag is set,
\* the dispatcher task and the keep-alive task are cancelled, the transport
\* is closed, and the verb that wrote does not return normally
C27_WriteFailureShutsDown ==
    fail.pc # "idle" =>
       /\ shutdown_flag
       /\ the_task # "running"
       /\ alive.keep_alive_task # "running"
       /\ serial_port = "closed"
       /\ fail.pc # "returned"

(***************************************************************************)
(* set_pin_mode_sonar                                                      *)
(***************************************************************************)
\* the trigger pins the application configures; the echo pin of a device is
\* the pin EchoOffset above its trigger pin
SonarPins == 5..12
EchoOffset == 8
\* calls of set_pin_mode_sonar the application makes
MaxSonarCalls == 8
\* the default timeout of set_pin_mode_sonar (microseconds)
SonarTimeout == 80000

\* data = [trigger_pin, echo_pin, timeout_lsb, timeout_msb]
SonarConfig(trigger_pin, echo_pin) ==
    SysexMessage(SONAR_CONFIG, <<trigger_pin, echo_pin, SonarTimeout % 128,
                                 (SonarTimeout \div 128) % 128>>)

\* active_sonar_map with the entry [callback, 0, 0] of trigger_pin
WithSonar(map, trigger_pin, callback) ==
    [p \in DOMAIN map \cup {trigger_pin} |->
        IF p = trigger_pin
        THEN [cb |-> callback, value |-> 0, time_stamp |-> 0]
        ELSE map[p]]

\* set_pin_mode_sonar(trigger_pin, echo_pin, callback) is called (callback
\* 0: None): a trigger pin that has an entry ends the call; otherwise
\* _set_pin_mode of the trigger pin, up to its sleep
SetPinModeSonar(trigger_pin, callback) ==
    /\ sonar_call.pc = "idle"
    /\ msg_seq < 3 * MaxSonarCalls
    /\ trigger_pin \notin DOMAIN active_sonar_map
    /\ Send("app1", SetPinModeMessages(trigger_pin, SONAR))
    /\ sonar_call' = [pc |-> "trigger", trigger_pin |-> trigger_pin,
                      callback |-> callback]
    /\ UNCHANGED <<ip_address, lifeVars, alive, fail, find, lateVars, mapVars, dispVars,
                   pinVars, query_reply_data, spiVars, query>>

\* ... the call goes on after a sleep of _set_pin_mode: the same for the
\* echo pin; then the entry, unless the map holds more than six, and the
\* SONAR_CONFIG message in either case
SetPinModeSonarGoesOn ==
    LET trigger_pin == sonar_call.trigger_pin
        echo_pin == trigger_pin + EchoOffset
    IN  /\ sonar_call.pc \in {"trigger", "echo"}
        /\ IF sonar_call.pc = "trigger"
           THEN /\ Send("app1", SetPinModeMessages(echo_pin, SONAR))
                /\ sonar_call' = [sonar_call EXCEPT !.pc = "echo"]
                /\ UNCHANGED active_sonar_map
           ELSE /\ active_sonar_map' =
                      IF Cardinality(DOMAIN active_sonar_map) > 6
                      THEN active_sonar_map
                      ELSE WithSonar(active_sonar_map, trigger_pin,
                                     sonar_call.callback)
                /\ Send("app1", <<SonarConfig(trigger_pin, echo_pin)>>)
                /\ sonar_call' = [sonar_call EXCEPT !.pc = "idle"]
        /\ UNCHANGED <<ip_address, lifeVars, alive, fail, find, lateVars, i2c_map,
                       cb_called, dispVars, pinVars, query_reply_data, spiVars,
                       query>>

NextSonar ==
    \/ \E trigger_pin \in SonarPins : SetPinModeSonar(trigger_pin, 1)
    \/ SetPinModeSonarGoesOn

SpecSonar == Started /\ [][NextSonar]_vars

\* C23: the sonar map never holds more than six entries, and a call of
\* set_pin_mode_sonar made when it holds six adds no entry and writes no
\* bytes
C23_SonarMapAtMostSix ==
    /\ [](Cardinality(DOMAIN active_sonar_map) <= 6)
    /\ [][Cardinality(DOMAIN active_sonar_map) >= 6
             => UNCHANGED <<active_sonar_map, wire>>]_vars

(***************************************************************************)
(* Replies for the sonar and I2C maps                                      *)
(***************************************************************************)
\* replies the firmware sends in the runs about the maps
MaxReplies == 3

\* the firmware sends the message bs, one message at a time
FeedMapReply(bs) ==
    /\ fed < MaxReplies
    /\ Len(inbuf) < MaxInbuf
    /\ inbuf' = inbuf \o Tagged(bs, fed + 1)
    /\ fed' = fed + 1
    /\ UNCHANGED <<ip_address, lifeVars, moreVars, mapVars, clock, the_task,
                   dpc, sysex, command, cur_msg, major, loop_pin, port_data,
                   running, last_cb_msg, pinVars, query_reply_data, wireVars,
                   spiVars, query>>

\* SONAR_DATA for a trigger pin: pin, distance LSB, distance MSB
SonarReply(pin, val) ==
    <<START_SYSEX, SONAR_DATA, pin, val % 128, val \div 128, END_SYSEX>>

\* the trigger pin of the one device the application configures, and a pin
\* it never configures
SonarPin == 12
OtherPin == 14

\* the accelerometer of the I2C example: its address and data register
DeviceAddress == 83
DataRegister == 50
\* an address the application never reads from
OtherAddress == 84

\* I2C_REPLY: address, register and the data bytes, each as LSB, MSB
I2cReplyMessage(address, register, bytes) ==
    <<START_SYSEX, I2C_REPLY, address % 128, address \div 128,
      register % 128, register \div 128>> \o bytes \o <<END_SYSEX>>

\* distances 30 and 158 differ in the high byte only; 0 is never reported
SonarReplies ==
    { SonarReply(SonarPin, 30), SonarReply(SonarPin, 158),
      SonarReply(SonarPin, 0), SonarReply(OtherPin, 30),
      I2cReplyMessage(DeviceAddress, DataRegister, <<>>) }

FeedSonarData == \E m \in SonarReplies : FeedMapReply(m)

NextSonarData ==
    \/ \E callback \in {0, 1} : SetPinModeSonar(SonarPin, callback)
    \/ SetPinModeSonarGoesOn
    \/ FeedSonarData
    \/ Tick
    \/ DispatcherRead
    \/ ReadSysexByte
    \/ CallbackReturns

SpecSonarData == Started /\ [][NextSonarData]_vars

\* the dispatcher reads the END_SYSEX of a complete message with command
\* byte cmd and n bytes after it, and calls its handler
SysexCompletes(cmd, n) ==
    /\ the_task = "running"
    /\ dpc = "sysex"
    /\ inbuf # <<>>
    /\ NextByte = END_SYSEX
    /\ Len(sysex) = n + 1
    /\ sysex[1] = cmd
    /\ sysex' # sysex

\* C24: a sonar reply for a configured pin whose value equals the stored
\* one invokes no callback and changes neither the value nor the time
\* stamp, so a run of identical replies gives at most one callback; and a
\* sonar callback is invoked only by a reply whose value differs
C24_SonarUnchangedSilent ==
    [][ /\ (SysexCompletes(SONAR_DATA, 3)
              /\ sysex[2] \in DOMAIN active_sonar_map
              /\ active_sonar_map[sysex[2]].value = sysex[4] * 128 + sysex[3])
           => UNCHANGED <<active_sonar_map, cb_called, running>>
        /\ cb_called' # cb_called
           => /\ SysexCompletes(SONAR_DATA, 3)
              /\ sysex[2] \in DOMAIN active_sonar_map
              /\ active_sonar_map[sysex[2]].value # sysex[4] * 128 + sysex[3]
              /\ cb_called' =
                    Append(cb_called,
                           [cb |-> active_sonar_map[sysex[2]].cb,
                            message |-> <<SONAR, sysex[2],
                                          sysex[4] * 128 + sysex[3], clock>>]) ]_vars

\* three replies for pin 12 were dispatched, the first with the value 30 at
\* time 0 and with the one callback there was; the time has moved on and
\* the entry still holds 30 with the time stamp 0
C24_Witness ==
    /\ SonarPin \in DOMAIN active_sonar_map
    /\ the_task = "running"
    /\ dpc = "read"
    /\ cur_msg = 3
    /\ inbuf = <<>>
    /\ clock = 1
    /\ last_cb_msg = 1
    /\ cb_called = << [cb |-> 1, message |-> <<SONAR, SonarPin, 30, 0>>] >>
    /\ active_sonar_map[SonarPin].value = 30
    /\ active_sonar_map[SonarPin].time_stamp = 0

\* C30: a sonar reply for a pin without an entry, and an I2C reply for an
\* address without an entry, is dropped: no callback, no entry, and the
\* dispatcher goes on
C30_UnknownKeyDropped ==
    [][ /\ (SysexCompletes(SONAR_DATA, 3)
              /\ sysex[2] \notin DOMAIN active_sonar_map)
           => (the_task' = "running" /\ UNCHANGED mapVars)
        /\ (\E n \in 2..4 : SysexCompletes(I2C_REPLY, n)
              /\ (sysex[2] % 128) + sysex[3] * 128 \notin DOMAIN i2c_map)
           => (the_task' = "running" /\ UNCHANGED mapVars) ]_vars

\* the bytes the example reads at a time
NumberOfBytes == 6

\* i2c_read(address, register, number_of_bytes, callback), called by an
\* application task (callback 0: None): _i2c_read_request makes the entry
\* when the address has none, and writes I2C_REQUEST with I2C_READ
I2cRead(address, callback) ==
    LET data == <<address, I2C_READ, DataRegister % 128,
                  (DataRegister \div 128) % 128, NumberOfBytes % 128,
                  (NumberOfBytes \div 128) % 128>>
        msgs == <<SysexMessage(I2C_REQUEST, data)>>
    IN  /\ i2c_map' =
              IF address \in DOMAIN i2c_map THEN i2c_map
              ELSE [a \in DOMAIN i2c_map \cup {address} |->
                      IF a = address
                      THEN [value |-> NoValue, callback |-> callback,
                            time_stamp |-> 0]
                      ELSE i2c_map[a]]
        /\ WireHasRoom(msgs, MaxSysexWire)
        /\ Send("app1", msgs)
        /\ UNCHANGED <<ip_address, lifeVars, moreVars, active_sonar_map,
                       cb_called, dispVars, pinVars, query_reply_data, spiVars,
                       query>>

\* two readings of the device (229 has a high byte), a reading of another
\* device, an empty SysEx message, and the reply I_AM_HERE, which has no
\* handler
I2cReplies ==
    { I2cReplyMessage(DeviceAddress, DataRegister, <<101, 1, 7, 0>>),
      I2cReplyMessage(DeviceAddress, DataRegister, <<2, 0, 3, 0>>),
      I2cReplyMessage(OtherAddress, DataRegister, <<1, 0>>),
      <<START_SYSEX, END_SYSEX>>,
      <<START_SYSEX, I_AM_HERE, 1, END_SYSEX>> }

FeedI2cReply == \E m \in I2cReplies : FeedMapReply(m)

NextI2c ==
    \/ \E callback \in 0..2 : I2cRead(DeviceAddress, callback)
    \/ FeedI2cReply
    \/ Tick
    \/ DispatcherRead
    \/ ReadSysexByte
    \/ CallbackReturns

SpecI2c == Started /\ [][NextI2c]_vars

\* C25: i2c_read for an address that has an entry with another callback
\* replaces the callback, so the entry holds the callback of the most
\* recent call
C25_I2cCallbackReplaced ==
    [][\A callback \in 0..2 :
          I2cRead(DeviceAddress, callback)
             => i2c_map'[DeviceAddress].callback = callback]_vars

\* the dispatcher hands a complete I2C reply for an address that has an
\* entry to _i2c_reply
I2cReplyArrives ==
    /\ SysexCompletes(I2C_REPLY, 8)
    /\ (sysex[2] % 128) + sysex[3] * 128 \in DOMAIN i2c_map

C29_UnknownSysexDiscarded ==
    [][(/\ the_task = "running"
        /\ dpc = "sysex"
        /\ inbuf # <<>>
        /\ NextByte = END_SYSEX
        /\ sysex' # sysex
        /\ (sysex = <<>> \/ sysex[1] \notin CommandKeys))
       => /\ the_task' = "running"
          /\ dpc' = "read"
          /\ UNCHANGED <<mapVars, pinVars, query_reply_data, running>>]_vars

(***************************************************************************)
(* _find_arduino: start_aio without com_port and ip_address                *)
(***************************************************************************)
\* serial ports that _find_arduino could open
MaxPorts == 3

\* the default arduino_instance_id
ArduinoInstanceId == 1

\* what read_until returns for the opened ports, the bytes that came until
\* the port fell silent: nothing, I_AM_HERE with the configured id, with
\* another id, without an id, followed by a further byte, another 4-byte
\* message, and 4 bytes without the SysEx framing
Answers ==
    { <<>>,
      <<START_SYSEX, I_AM_HERE, ArduinoInstanceId, END_SYSEX>>,
      <<START_SYSEX, I_AM_HERE, ArduinoInstanceId + 1, END_SYSEX>>,
      <<START_SYSEX, I_AM_HERE, END_SYSEX>>,
      <<START_SYSEX, I_AM_HERE, ArduinoInstanceId, END_SYSEX, REPORT_VERSION>>,
      <<START_SYSEX, STRING_DATA, ArduinoInstanceId, END_SYSEX>>,
      <<0, I_AM_HERE, ArduinoInstanceId, 0>> }

\* a test that takes any I_AM_HERE, whatever its id
IAmHereAnyId(i_am_here) ==
    /\ Len(i_am_here) = 4
    /\ i_am_here[2] = I_AM_HERE

\* the tests of the answer: not empty, len(i_am_here) == 4,
\* i_am_here[1] == I_AM_HERE, i_am_here[2] == self.arduino_instance_id
IAmHere(i_am_here) ==
    /\ Len(i_am_here) = 4
    /\ i_am_here[2] = I_AM_HERE
    /\ i_am_here[3] = ArduinoInstanceId

\* _find_arduino has opened the ports, in the order of list_ports, and
\* sleeps for arduino_wait; self.serial_port is the port opened last
Searching ==
    /\ ip_address = FALSE
    /\ NothingRead
    /\ the_task = "none"
    /\ analog_pins = <<>>
    /\ digital_pins = <<>>
    /\ query_reply_data = [k \in QueryKeys |-> EmptySlot]
    /\ NothingWritten
    /\ NoQuery
    /\ NoSpi
    /\ Constructed
    /\ \E n \in 0..MaxPorts : \E ports \in [1..n -> Answers] :
          /\ find = [pc |-> "searching", ports |-> ports, com_port |-> 0]
          /\ serial_port = IF n = 0 THEN "none" ELSE "open"
    /\ close_loop_on_shutdown \in BOOLEAN
    /\ first_analog_pin = -1
    /\ start_aio = NotStarted
    /\ pwm_value = 0

\* the sleep, or read_until on the port asked last, has returned: an
\* answer that passes the tests makes that port com_port, and start_aio
\* creates the dispatcher task; otherwise the next port is asked
\* ARE_YOU_THERE; after the last port start_aio calls shutdown and raises
\* RuntimeError.  find.com_port is the number of the port being asked
FindArduinoGoesOn ==
    LET k == find.com_port
    IN  /\ find.pc \in {"searching", "asking"}
        /\ IF find.pc = "asking" /\ IAmHere(find.ports[k])
           THEN /\ find' = [find EXCEPT !.pc = "found"]
                /\ the_task' = "running"
                /\ UNCHANGED <<wireVars, shutdown_flag, shutdown_call,
                               loop_running, serial_port, inbuf, start_aio>>
           ELSE IF k < Len(find.ports)
           THEN /\ find' = [find EXCEPT !.pc = "asking", !.com_port = k + 1]
                /\ Send("app1", <<SysexMessage(ARE_YOU_THERE, <<>>)>>)
                /\ UNCHANGED <<the_task, shutdown_flag, shutdown_call,
                               loop_running, serial_port, inbuf, start_aio>>
           ELSE /\ find' = [find EXCEPT !.pc = "failed", !.com_port = 0]
                /\ shutdown_flag' = TRUE
                /\ ShutdownFrom(0, 1)
                /\ start_aio' = [pc |-> "failed", report |-> <<>>]
                /\ UNCHANGED writer
        /\ UNCHANGED <<ip_address, close_loop_on_shutdown, first_analog_pin,
                       DIGITAL_OUTPUT_PORT_PINS, owed, last_digital_write,
                       pwm_value, alive, fail, sonar_call, lateVars, mapVars, fed, clock,
                       dpc, sysex, command, cur_msg, major, loop_pin,
                       port_data, running, last_cb_msg, pinVars,
                       query_reply_data, spiVars, query>>

NextFind == FindArduinoGoesOn

SpecFind == Searching /\ [][NextFind]_vars

\* C28: the port selected is the first opened port, in the order of
\* enumeration, whose answer has four bytes, I_AM_HERE as its command byte
\* and the configured instance id; when no port answers so, start_aio
\* fails, with no dispatcher task and no pin record
C28_FirstMatchingPort ==
    LET Matches(i) == /\ Len(find.ports[i]) = 4
                      /\ find.ports[i][2] = I_AM_HERE
                      /\ find.ports[i][3] = ArduinoInstanceId
    IN  /\ find.pc = "found" =>
             /\ find.com_port \in DOMAIN find.ports
             /\ Matches(find.com_port)
             /\ \A i \in 1..(find.com_port - 1) : ~Matches(i)
             /\ start_aio.pc # "failed"
        /\ find.pc = "failed" =>
             /\ \A i \in DOMAIN find.ports : ~Matches(i)
             /\ start_aio.pc = "failed"
             /\ the_task = "none"
             /\ analog_pins = <<>>
             /\ digital_pins = <<>>
        /\ find.pc \in {"searching", "asking"} =>
             /\ the_task = "none"
             /\ \A i \in 1..(find.com_port - 1) : ~Matches(i)

\* of three ports the first answered with another id, the second and the
\* third with the configured one: the second was selected, the third never
\* asked
C28_Witness ==
    /\ find.pc = "found"
    /\ Len(find.ports) = 3
    /\ find.ports[1] = <<START_SYSEX, I_AM_HERE, ArduinoInstanceId + 1, END_SYSEX>>
    /\ find.ports[3] = find.ports[2]
    /\ find.com_port = 2
    /\ msg_seq = 2
    /\ the_task = "running"

(***************************************************************************)
(* Further properties of the sonar replies                                 *)
(***************************************************************************)
\* C31: a sonar reply for a configured pin with a callback whose value
\* differs from the stored one, a change to 0 included, stores the value
\* and the time and invokes the callback exactly once with
\* [SONAR, pin, value, time]
C31_SonarChangeReported ==
    [][(/\ SysexCompletes(SONAR_DATA, 3)
        /\ sysex[2] \in DOMAIN active_sonar_map
        /\ active_sonar_map[sysex[2]].cb # 0
        /\ active_sonar_map[sysex[2]].value # sysex[4] * 128 + sysex[3])
       => LET pin == sysex[2]
              val == sysex[4] * 128 + sysex[3]
          IN  /\ active_sonar_map'[pin].value = val
              /\ active_sonar_map'[pin].time_stamp = clock
              /\ cb_called' =
                    Append(cb_called,
                           [cb |-> active_sonar_map[pin].cb,
                            message |-> <<SONAR, pin, val, clock>>])]_vars

(***************************************************************************)
(* DHT sensors                                                             *)
(***************************************************************************)
\* the pin of the one sensor the application configures, a DHT22
DhtPin == 2
SensorType == 22

\* differentials, in hundredths: the default of .1, and 2
DhtDifferentials == {10, 200}

\* set_pin_mode_dht(pin_number, sensor_type, differential, callback): the
\* first call for a pin initializes it and writes DHT_CONFIG, a later one
\* changes the differential only
SetPinModeDht(pin_number, sensor_type, differential, callback) ==
    /\ IF ~InDhtList(pin_number)
       THEN /\ WireHasRoom(<<SysexMessage(DHT_CONFIG, <<pin_number, sensor_type>>)>>,
                           MaxSysexWire)
            /\ dht_list' = Append(dht_list, pin_number)
            /\ digital_pins' =
                  [digital_pins EXCEPT ![pin_number].cb = callback,
                                       ![pin_number].current_value = <<0, 0>>,
                                       ![pin_number].differential = differential]
            /\ Send("app1", <<SysexMessage(DHT_CONFIG, <<pin_number, sensor_type>>)>>)
       ELSE /\ digital_pins[pin_number].differential # differential
            /\ digital_pins' =
                  [digital_pins EXCEPT ![pin_number].differential = differential]
            /\ UNCHANGED <<dht_list, wireVars>>
    /\ UNCHANGED <<ip_address, lifeVars, alive, fail, find, sonar_call,
                   other_wire, cb_query, pin_asked, mapVars, dispVars,
                   analog_pins, query_reply_data, spiVars, query>>

\* DHT_DATA: pin, type, validation flag, the two sign flags, and humidity
\* and temperature, each as whole number and hundredths
DhtReply(pin, flag, humidity, temperature) ==
    <<START_SYSEX, DHT_DATA, pin, SensorType, flag, 0, 0,
      humidity \div 100, humidity % 100, temperature \div 100,
      temperature % 100, END_SYSEX>>

\* readings 50.00 / 20.00, then a humidity that moved by .05 with a
\* temperature that moved by 5, the same humidity with the new
\* temperature, and a reading that failed its checksum
DhtReplies ==
    { DhtReply(DhtPin, 0, 5000, 2000), DhtReply(DhtPin, 0, 5005, 2500),
      DhtReply(DhtPin, 0, 5000, 2500), DhtReply(DhtPin, 1, 0, 0) }

\* the firmware reports a sensor once it is configured
FeedDhtData ==
    /\ InDhtList(DhtPin)
    /\ \E m \in DhtReplies : FeedMapReply(m)

NextDht ==
    \/ \E d \in DhtDifferentials, callback \in BOOLEAN :
          SetPinModeDht(DhtPin, SensorType, d, callback)
    \/ FeedDhtData
    \/ Tick
    \/ DispatcherRead
    \/ ReadSysexByte
    \/ CallbackReturns

SpecDht == Started /\ [][NextDht]_vars

\* C32: for a DHT pin with a callback and threshold d, a reply invokes the
\* callback, once, exactly when the new humidity differs from the stored
\* one by at least d or the new temperature differs from the stored one by
\* at least d, also when the humidity moved by less than d
C32_DhtReportsChange ==
    [][(/\ SysexCompletes(DHT_DATA, 9)
        /\ InDhtList(sysex[2])
        /\ digital_pins[sysex[2]].cb)
       => LET pin == sysex[2]
              ok == sysex[4] = 0
              humidity == IF ok THEN DhtValue(sysex[5], sysex[7], sysex[8]) ELSE 0
              temperature == IF ok THEN DhtValue(sysex[6], sysex[9], sysex[10]) ELSE 0
              message == <<DHT, pin, sysex[3], sysex[4], humidity, temperature, clock>>
          IN  IF DhtReportsEither(pin, digital_pins[pin].current_value,
                                  humidity, temperature)
              THEN running' = Append(running, [message |-> message,
                                               msg |-> cur_msg])
              ELSE running' = running]_vars
(***************************************************************************)
(* The pin type of the digital reports                                     *)
(***************************************************************************)
\* C33: the pin type in the payload of a digital callback for pin n is
\* PULLUP exactly when the latest pin-mode setter applied to n was the
\* pull-up input setter and INPUT when it was the plain input setter, with
\* or without a callback: each setter leaves the pin, when it has a
\* callback, with the type that its reports will carry, and a report
\* carries the type the pin was left with
C33_PinTypeOfLatestSetter ==
    [][/\ \A t \in AppTasks, pin \in InputPins, callback \in BOOLEAN :
            /\ (SetPinMode(t, pin, INPUT, callback, 1) /\ digital_pins'[pin].cb)
                   => ~digital_pins'[pin].pull_up
            /\ (SetPinMode(t, pin, PULLUP, callback, 1) /\ digital_pins'[pin].cb)
                   => digital_pins'[pin].pull_up
       /\ (dpc' = "cb_digital" /\ running' # running)
             => LET message == running'[Len(running')].message
                IN  message[1] = IF digital_pins[message[2]].pull_up
                                 THEN PULLUP ELSE INPUT]_vars
(***************************************************************************)
(* start_aio from the firmware version on: the transport is open, the      *)
(* dispatcher task created, get_firmware_version has sent its request and  *)
(* polls for the reply                                                     *)
(***************************************************************************)
\* "1.2", as character codes
FIRMATA_EXPRESS_VERSION == <<49, 46, 50>>

\* str(n) for a data byte, as character codes
Str(n) ==
    IF n < 10 THEN <<48 + n>>
    ELSE IF n < 100 THEN <<48 + (n \div 10), 48 + (n % 10)>>
    ELSE <<48 + (n \div 100), 48 + ((n \div 10) % 10), 48 + (n % 10)>>

\* firmware_version[0:3] of the string _report_firmware assembles from
\* what the slot holds: major, '.', minor, ' ' and the name
VersionNumber(val) ==
    SubSeq(Str(val[1]) \o <<46>> \o Str(val[2]) \o <<32>>, 1, 3)

\* _find_arduino sets using_firmata_express when it selects a port
Found == [pc |-> "found",
          ports |-> <<SysexMessage(I_AM_HERE, <<ArduinoInstanceId>>)>>,
          com_port |-> 1]

AwaitingFirmware ==
    /\ ip_address = FALSE
    /\ NoSpi
    /\ DispatcherCreated
    /\ Constructed
    /\ find \in {PortGiven, Found}
    /\ serial_port = "open"
    /\ close_loop_on_shutdown = TRUE
    /\ first_analog_pin = -1
    /\ start_aio = NotStarted
    /\ pwm_value = 0

\* firmware_version = await self.get_firmware_version()
StartAioAsks ==
    /\ start_aio.pc = "firmware"
    /\ query["app1"].pc = "idle"
    /\ msg_seq = 0
    /\ Send("app1", <<SysexMessage(REPORT_FIRMWARE, <<>>)>>)
    /\ QueryLoop("app1", REPORT_FIRMWARE, 0)
    /\ UNCHANGED <<ip_address, lifeVars, moreVars, mapVars, dispVars, pinVars,
                   spiVars>>

\* get_firmware_version has returned to start_aio: without a version (a
\* timeout) start_aio calls shutdown and raises RuntimeError; with a
\* version whose first three characters are not FIRMATA_EXPRESS_VERSION,
\* when _find_arduino selected the port, it raises RuntimeError; otherwise
\* it calls get_analog_map
StartAioFirmware ==
    /\ start_aio.pc = "firmware"
    /\ query["app1"].pc = "done"
    /\ LET firmware_version == IF query["app1"].result = "reply"
                               THEN query_reply_data[REPORT_FIRMWARE].val
                               ELSE <<>>
           using_firmata_express == find.pc = "found"
       IN  IF firmware_version = <<>>
           THEN /\ shutdown_flag' = TRUE
                /\ ShutdownFrom(0, 1)
                /\ start_aio' = [pc |-> "failed", report |-> <<>>]
                /\ query' = [query EXCEPT !["app1"] = NotQuerying]
                /\ UNCHANGED <<writer, query_reply_data>>
           ELSE IF /\ using_firmata_express
                   /\ VersionNumber(firmware_version) # FIRMATA_EXPRESS_VERSION
           THEN /\ start_aio' = [pc |-> "failed", report |-> <<>>]
                /\ query' = [query EXCEPT !["app1"] = NotQuerying]
                /\ UNCHANGED <<shutdown_flag, shutdown_call, loop_running,
                               serial_port, inbuf, the_task, wireVars,
                               query_reply_data>>
           ELSE /\ start_aio' = [pc |-> "map", report |-> <<>>]
                /\ Send("app1", <<SysexMessage(ANALOG_MAPPING_QUERY, <<>>)>>)
                /\ QueryLoop("app1", ANALOG_MAPPING_RESPONSE, 0)
                /\ UNCHANGED <<shutdown_flag, shutdown_call, loop_running,
                               serial_port, inbuf, the_task>>
    /\ UNCHANGED <<ip_address, close_loop_on_shutdown, first_analog_pin,
                   DIGITAL_OUTPUT_PORT_PINS, owed, last_digital_write,
                   pwm_value, moreVars, mapVars, fed, clock, dpc, sysex,
                   command, cur_msg, major, loop_pin, port_data, running,
                   last_cb_msg, pinVars, spiVars>>

\* the firmware reports version 1.2, 1.3 or 1.20, with the name "F"
FirmwareReplies ==
    { SysexMessage(REPORT_FIRMWARE, <<1, minor, 70, 0>>) : minor \in {2, 3, 20} }

FeedFirmware == \E m \in FirmwareReplies : Feed(m)

NextFirmware ==
    \/ StartAioAsks
    \/ StartAioFirmware
    \/ StartAioGoesOn
    \/ \E t \in AppTasks : QueryPolls(t)
    \/ QueryTimePasses
    \/ (serial_port = "open" /\ FeedFirmware)
    \/ (serial_port = "open" /\ FeedAnalogMap)
    \/ (serial_port = "open" /\ DispatcherRead)
    \/ (serial_port = "open" /\ ReadSysexByte)

SpecFirmware == AwaitingFirmware /\ [][NextFirmware]_vars

\* C34: with shutdown_on_exception (the default), every failure of the
\* start - no board, no firmware version in time, a firmware version whose
\* prefix is not FIRMATA_EXPRESS_VERSION, no analog map in time - runs
\* shutdown before the error is raised
C34_StartFailureShutsDown ==
    start_aio.pc = "failed" => shutdown_flag
(***************************************************************************)
(* The range of the SPI request ids                                        *)
(***************************************************************************)
\* C35: in every reachable state every key of the SPI registry, every
\* request id written to the transport and the next_request_id of every
\* verb lie in 0..127
C35_SpiIdsInRange ==
    /\ DOMAIN spi_requests \subseteq SpiIds
    /\ \A t \in AppTasks : spi_task[t].next_request_id \in SpiIds
    /\ \A i \in DOMAIN wire :
          (wire[i][1] = START_SYSEX /\ wire[i + 1][1] = SPI_DATA)
             => wire[i + 4][1] \in SpiIds
(***************************************************************************)
(* Two clients in one process.  DIGITAL_OUTPUT_PORT_PINS is an attribute   *)
(* of the class PrivateConstants, one list for the process; every client   *)
(* has its own transport.                                                  *)
(***************************************************************************)
\* digital_write(pin, value) called on the second client
OtherDigitalWriteOf(pin, value) ==
    /\ Len(other_wire) + 3 <= MaxWire
    /\ other_wire' = other_wire \o DigitalWriteCommand(pin, value)
    /\ DIGITAL_OUTPUT_PORT_PINS' =
          [DIGITAL_OUTPUT_PORT_PINS EXCEPT ![pin \div 8] =
              WritePortPins(DIGITAL_OUTPUT_PORT_PINS[pin \div 8], pin, value)]
    /\ UNCHANGED <<ip_address, shutdown_flag, close_loop_on_shutdown,
                   loop_running, serial_port, first_analog_pin, start_aio,
                   shutdown_call, owed, last_digital_write, pwm_value, alive,
                   fail, find, sonar_call, dht_list, cb_query, pin_asked,
                   mapVars, dispVars, pinVars, query_reply_data, wireVars,
                   spiVars, query>>

OtherDigitalWrite ==
    \E pin \in DigitalWritePins, value \in {0, 1} : OtherDigitalWriteOf(pin, value)

NextTwoClients ==
    \/ DigitalWrite
    \/ OtherDigitalWrite

SpecTwoClients == Started /\ [][NextTwoClients]_vars

\* C36: with two clients in one process, the port bytes a digital_write of
\* one client writes depend only on the earlier digital_write calls of
\* that client: the mask it writes has, for every pin of the port, the
\* value of the latest digital_write this client made for the pin (0 when
\* it made none)
C36_PortBytesOwnWrites ==
    [][\A pin \in DigitalWritePins, value \in {0, 1} :
          DigitalWriteOf(pin, value)
             => LET n == Len(wire')
                    mask == wire'[n - 1][1] + wire'[n][1] * 128
                IN  \A p \in DOMAIN last_digital_write :
                       p \div 8 = pin \div 8
                          => (mask \div (2 ^ (p % 8))) % 2
                                = last_digital_write'[p]]_vars
(***************************************************************************)
(* A user callback that awaits a one-shot query                            *)
(***************************************************************************)
\* the pin the callback asks about, and the report the firmware sends
QueriedPin == 3
PinStateReply == <<START_SYSEX, PIN_STATE_RESPONSE, QueriedPin, 0, 1, END_SYSEX>>

\* a user callback the dispatcher is awaiting calls get_pin_state, or the
\* sleep of its polling loop is over: the call writes the request; the
\* loop tests the slot, and with a report in it the verb empties the slot
\* and returns to the callback
CallbackGetsPinState ==
    /\ running # <<>>
    /\ cb_query # "done"
    /\ IF cb_query = "idle"
       THEN Send("callback", <<SysexMessage(PIN_STATE_QUERY, <<QueriedPin>>)>>)
       ELSE UNCHANGED wireVars
    /\ IF query_reply_data[PIN_STATE_RESPONSE].full
       THEN /\ cb_query' = "done"
            /\ query_reply_data' =
                  [query_reply_data EXCEPT ![PIN_STATE_RESPONSE] = EmptySlot]
       ELSE /\ cb_query' = "polling"
            /\ UNCHANGED query_reply_data
    /\ UNCHANGED <<ip_address, lifeVars, alive, fail, find, sonar_call,
                   dht_list, other_wire, pin_asked, mapVars, dispVars,
                   pinVars, spiVars, query>>

\* the firmware sends a pin state report
FeedPinStateReply == Feed(PinStateReply)

\* the callback completes, once the verb it awaits has returned
CallbackCompletes ==
    /\ cb_query # "polling"
    /\ CallbackReturns

NextCallbackQuery ==
    \/ SetPinModeAnalogInputCallback
    \/ FeedAnalog
    \/ FeedPinStateReply
    \/ DispatcherRead
    \/ ReadSysexByte
    \/ WaitForData
    \/ CallbackGetsPinState
    \/ CallbackCompletes

SpecCallbackQuery == Started /\ [][NextCallbackQuery]_vars

\* the event loop runs every task that is ready
SpecCallbackQueryFair ==
    /\ SpecCallbackQuery
    /\ WF_vars(DispatcherRead)
    /\ WF_vars(ReadSysexByte)
    /\ WF_vars(WaitForData)
    /\ WF_vars(CallbackGetsPinState)
    /\ WF_vars(CallbackCompletes)

\* the report is in the transport, or in its slot
PinStateReplySent ==
    \/ \E i \in DOMAIN inbuf : inbuf[i][1] = PIN_STATE_RESPONSE
    \/ query_reply_data[PIN_STATE_RESPONSE].full

\* C37: a user callback that the dispatcher invokes and that awaits a
\* one-shot query completes once the firmware has sent the reply, and the
\* dispatcher goes on reading
C37_CallbackQueryCompletes ==
    (cb_query = "polling" /\ PinStateReplySent)
       ~> (cb_query = "done" /\ running = <<>>)
(***************************************************************************)
(* get_pin_state called by two tasks                                       *)
(***************************************************************************)
\* the pins the two tasks ask about
StatePins == {QueriedPin, QueriedPin + 1}

\* task t calls get_pin_state(pin)
GetPinStateOf(t, pin) ==
    /\ query[t].pc # "polling"
    /\ writer[t] = <<>>
    /\ msg_seq < MaxQueries
    /\ Send(t, <<SysexMessage(PIN_STATE_QUERY, <<pin>>)>>)
    /\ QueryLoop(t, PIN_STATE_RESPONSE, 0)
    /\ pin_asked' = [pin_asked EXCEPT ![t] = pin]
    /\ UNCHANGED <<ip_address, lifeVars, alive, fail, find, sonar_call,
                   dht_list, other_wire, cb_query, mapVars, dispVars,
                   pinVars, spiVars>>

\* the firmware answers a request: pin, mode, state
FeedPinStateOf(pin) ==
    /\ \E t \in AppTasks : pin_asked[t] = pin
    /\ Feed(SysexMessage(PIN_STATE_RESPONSE, <<pin, 0, 1>>))

NextPinState ==
    \/ \E t \in AppTasks, pin \in StatePins : GetPinStateOf(t, pin)
    \/ \E pin \in StatePins : FeedPinStateOf(pin)
    \/ \E t \in AppTasks : QueryPolls(t)
    \/ DispatcherRead
    \/ ReadSysexByte

SpecPinState == Started /\ [][NextPinState]_vars

\* C38: when two tasks have called get_pin_state for different pins and
\* both wait for their reports, a call that returns returns the report of
\* the pin it asked about, never that of the other call
C38_PinStateOfOwnPin ==
    [][\A t \in AppTasks :
          (/\ \A u \in AppTasks : query[u].pc = "polling"
           /\ pin_asked["app1"] # pin_asked["app2"]
           /\ query'[t].pc = "done")
             => query_reply_data[PIN_STATE_RESPONSE].val[1] = pin_asked[t]]_vars
(***************************************************************************)
(* The polling reads                                                       *)
(***************************************************************************)
\* analog_read(pin): [last value reported, time-stamp]
AnalogRead(pin) ==
    <<analog_pins[pin].current_value, analog_pins[pin].event_time>>

\* digital_read(pin)
DigitalRead(pin) ==
    <<digital_pins[pin].current_value, digital_pins[pin].event_time>>

NextPolling ==
    \/ SetPinModeAnalogInputCallback
    \/ SetPinModeDigitalInputCallback
    \/ FeedAnalog
    \/ FeedDigital
    \/ DispatcherRead
    \/ WaitForData
    \/ CallbackReturns

SpecPolling == Started /\ [][NextPolling]_vars

\* this step invokes a callback with a message of one of the pin types
\* types for the pin, carrying value
ReportedNow(types, pin, value) ==
    /\ running' # <<>>
    /\ running' # running
    /\ LET message == running'[Len(running')].message
       IN  /\ message[1] \in types
           /\ message[2] = pin
           /\ message[3] = value

\* C39: for an analog or digital input pin with a callback, the value the
\* polling read returns between messages is the value the latest callback
\* invocation for the pin carried (the initial value before the first):
\* the value a read returns changes only in a step that invokes the
\* callback of the pin with the new value, and every invocation carries
\* the value a read returns after it
C39_ReadIsLastReported ==
    [][/\ \A pin \in DOMAIN analog_pins :
            (analog_pins[pin].cb
               /\ analog_pins'[pin].current_value # AnalogRead(pin)[1])
              => ReportedNow({ANALOG}, pin, analog_pins'[pin].current_value)
       /\ \A pin \in DOMAIN digital_pins :
            (digital_pins[pin].cb
               /\ digital_pins'[pin].current_value # DigitalRead(pin)[1])
              => ReportedNow({INPUT, PULLUP}, pin,
                             digital_pins'[pin].current_value)
       /\ (running' # <<>> /\ running' # running)
            => LET message == running'[Len(running')].message
               IN  message[3] =
                      IF message[1] = ANALOG
                      THEN analog_pins'[message[2]].current_value
                      ELSE digital_pins'[message[2]].current_value]_vars

\* pin 0 has a callback; it was reported as 1 by the first message, the
\* second message carried the same bit and invoked nothing: a read returns
\* the 1 of the one invocation
C39_Witness ==
    /\ fed = 2
    /\ cur_msg = 2
    /\ dpc = "read"
    /\ inbuf = <<>>
    /\ running = <<>>
    /\ last_cb_msg = 1
    /\ command = <<0, 1, 1>>
    /\ digital_pins[0].cb
    /\ DigitalRead(0)[1] = 1
(***************************************************************************)
(* Restarting the keep-alive                                               *)
(***************************************************************************)
\* C40: a keep-alive that was cancelled with keep_alive(0) can always be
\* restarted while the client is not shut down: after keep_alive(p),
\* keep_alive(0) and keep_alive(q) with p, q > 0 KEEP_ALIVE messages are
\* written again, so every call with a period above 0 leaves a keep-alive
\* task running, with the interval of that period
C40_KeepAliveRestarts ==
    [][\A period \in KeepAlivePeriods \ {0}, margin \in KeepAliveMargins :
          (KeepAlive(period, margin) /\ ~shutdown_flag)
             => /\ alive'.keep_alive_task = "running"
                /\ alive'.keep_alive_interval = KeepAliveInterval(period)]_vars
====
